---- MODULE Spec2Model ----
(***************************************************************************)
(* Wasting model of vivarium_ciff_sam / vivarium_compass_sam: the          *)
(* treatment-coverage classification, the transition-rate solvers with     *)
(* their age gating, the wired wasting state machine with the treatment    *)
(* modifiers, the simulant initializers of the propensity columns, the     *)
(* results stratifier with its observers, and the configuration look-ups.  *)
(*                                                                         *)
(* Units.  Ages are counted in eighths of a day, so that 28 days and half  *)
(* a year of 365.25 days are both whole numbers.  Propensities and the     *)
(* coverage and efficacy levels are per-mille.  Probabilities and rates    *)
(* are fixed-point numbers with Scale units to 1.                          *)
(***************************************************************************)
EXTENDS Integers, Sequences, FiniteSets, TLC

VARIABLES
    cov,        \* WastingTreatment._treatment_coverage_source: inputs and result
    rate,       \* transition-rate solvers: stratum, inputs and result
    sim,        \* the run: clock, scenario, event position
    pop,        \* the population table of the run
    strat,      \* ResultsStratifier and DiseaseObserver of the run
    ini,        \* simulant initialization: state table and update calls
    cfg,        \* get_data and the loaders: call and outcome
    art,        \* artifact tables: raw GBD rows and the table a loader makes
    calc        \* a call of a pure function: arguments and value

vars == <<cov, rate, sim, pop, strat, ini, cfg, art, calc>>

----------------------------------------------------------------------------
(* Units and constants of constants/data_values.py *)

AgeUnitsPerDay == 2 * 4

\* YEAR_DURATION = 365.25 days, in age units
YEAR_DURATION == 2922

\* WASTING.START_AGE = 0.5 years
START_AGE == 1461

\* WASTING.COVERAGE_START_AGE = 28 / YEAR_DURATION years
COVERAGE_START_AGE == 224

\* the literal 0.5 of the treatment modifiers (under / over 6 months)
SIX_MONTHS == 1461

Scale == 10 * 1000

\* recovery times in tenths of a day
SAM_TX_RECOVERY_TIME_OVER_6MO == 483
SAM_TX_RECOVERY_TIME_UNDER_6MO == 133
MAM_TX_RECOVERY_TIME_OVER_6MO == 413
MAM_TX_RECOVERY_TIME_UNDER_6MO == 133
MAM_UX_RECOVERY_TIME == 630
MILD_WASTING_UX_RECOVERY_TIME == 10000

\* 1 / recovery time (days), as a fixed-point number
PerDay(tenths) == (10 * Scale) \div tenths

----------------------------------------------------------------------------
(* WastingTreatment._treatment_coverage_source (ciff treatment.py) *)

INELIGIBLE == "ineligible"
UNTREATED == "untreated"
NON_RESPONSIVE == "non_responsive"
EFFECTIVELY_COVERED == "effectively_covered"
NAN == "nan"

CoverageClasses == {INELIGIBLE, UNTREATED, NON_RESPONSIVE, EFFECTIVELY_COVERED}

\* 'sam': (sam coverage level, sam efficacy level); 'mam': the mam levels
treatment_parameters(levels, treatment_type) ==
    IF treatment_type = "sam"
    THEN <<levels.sam_treatment_coverage_level, levels.sam_treatment_efficacy_level>>
    ELSE <<levels.mam_treatment_coverage_level, levels.mam_treatment_efficacy_level>>

ineligible(age) == age < COVERAGE_START_AGE

untreated_strict(age, treatment_propensity, treatment_coverage_level) ==
    ~ineligible(age) /\ treatment_coverage_level < treatment_propensity

untreated(age, treatment_propensity, treatment_coverage_level) ==
    ~ineligible(age) /\ treatment_coverage_level <= treatment_propensity

non_responsive(age, treatment_propensity, efficacy_propensity, treatment_coverage_level, treatment_efficacy_level) ==
    /\ ~ineligible(age)
    /\ ~untreated(age, treatment_propensity, treatment_coverage_level)
    /\ treatment_efficacy_level <= efficacy_propensity

effectively_covered_inclusive(age, treatment_propensity, efficacy_propensity, treatment_coverage_level, treatment_efficacy_level) ==
    /\ ~ineligible(age)
    /\ ~untreated(age, treatment_propensity, treatment_coverage_level)
    /\ efficacy_propensity <= treatment_efficacy_level

effectively_covered(age, treatment_propensity, efficacy_propensity, treatment_coverage_level, treatment_efficacy_level) ==
    /\ ~ineligible(age)
    /\ ~untreated(age, treatment_propensity, treatment_coverage_level)
    /\ efficacy_propensity < treatment_efficacy_level

\* the four masks of one individual
coverage_masks(age, tp, ep, cl, el) ==
    [ineligible          |-> ineligible(age),
     untreated           |-> untreated(age, tp, cl),
     non_responsive      |-> non_responsive(age, tp, ep, cl, el),
     effectively_covered |-> effectively_covered(age, tp, ep, cl, el)]

\* coverage = pd.Series(index=index), then one masked assignment per class,
\* in the order of the source: a later assignment overwrites an earlier one
\* and an individual in no mask keeps the missing value
assign_coverage(m) ==
    LET c0 == NAN
        c1 == IF m.ineligible THEN INELIGIBLE ELSE c0
        c2 == IF m.untreated THEN UNTREATED ELSE c1
        c3 == IF m.non_responsive THEN NON_RESPONSIVE ELSE c2
        c4 == IF m.effectively_covered THEN EFFECTIVELY_COVERED ELSE c3
    IN c4

treatment_coverage_source(levels, treatment_type, age, tp, ep) ==
    LET p == treatment_parameters(levels, treatment_type)
    IN assign_coverage(coverage_masks(age, tp, ep, p[1], p[2]))

get_sam_treatment_coverage_source(levels, age, tp, ep) ==
    treatment_coverage_source(levels, "sam", age, tp, ep)

get_mam_treatment_coverage_source(levels, age, tp, ep) ==
    treatment_coverage_source(levels, "mam", age, tp, ep)

----------------------------------------------------------------------------
(* Floating-point values of the rate algebra (compass wasting.py).  A value *)
(* is a fixed-point number, the not-a-number value or an infinity; the      *)
(* operations follow IEEE 754 on the special values, as numpy does on a     *)
(* pandas Series (no exception is raised on a division by zero).            *)

Num(n) == [k |-> "num", v |-> n]

NaNv == [k |-> "nan", v |-> 0]

Inf(sign) == [k |-> "inf", v |-> sign]

Zero == Num(0)

One == Num(Scale)

IsNum(a) == a.k = "num"

IsNaN(a) == a.k = "nan"

IsInf(a) == a.k = "inf"

Sign(n) == IF n > 0 THEN 1 ELSE IF n < 0 THEN -1 ELSE 0

FNeg(a) == IF IsNaN(a) THEN NaNv ELSE [a EXCEPT !.v = -a.v]

FAdd(a, b) ==
    IF IsNaN(a) \/ IsNaN(b) THEN NaNv
    ELSE IF IsInf(a) /\ IsInf(b) THEN (IF a.v = b.v THEN a ELSE NaNv)
    ELSE IF IsInf(a) THEN a
    ELSE IF IsInf(b) THEN b
    ELSE Num(a.v + b.v)

FSub(a, b) == FAdd(a, FNeg(b))

FMul(a, b) ==
    IF IsNaN(a) \/ IsNaN(b) THEN NaNv
    ELSE IF IsInf(a) \/ IsInf(b)
         THEN (IF Sign(a.v) * Sign(b.v) = 0 THEN NaNv ELSE Inf(Sign(a.v) * Sign(b.v)))
    ELSE Num((a.v * b.v) \div Scale)

FDiv(a, b) ==
    IF IsNaN(a) \/ IsNaN(b) THEN NaNv
    ELSE IF IsInf(a) /\ IsInf(b) THEN NaNv
    ELSE IF IsInf(a) THEN Inf(a.v * (IF b.v < 0 THEN -1 ELSE 1))
    ELSE IF IsInf(b) THEN Zero
    ELSE IF b.v = 0 THEN (IF a.v = 0 THEN NaNv ELSE Inf(Sign(a.v)))
    ELSE Num((a.v * Scale) \div b.v)

\* x / d for a duration d given in tenths of a day
FDivDays(a, tenths) == IF IsNum(a) THEN Num((a.v * 10) \div tenths) ELSE a

\* x * YEAR_DURATION and x / YEAR_DURATION (365.25 = YEAR_DURATION / AgeUnitsPerDay)
FMulYear(a) == IF IsNum(a) THEN Num((a.v * YEAR_DURATION) \div AgeUnitsPerDay) ELSE a

FDivYear(a) == IF IsNum(a) THEN Num((a.v * AgeUnitsPerDay) \div YEAR_DURATION) ELSE a

\* 1 - exp(-x) by its series x - x^2/2 + x^3/6 - x^4/24
ExpSeries(x) ==
    LET x2 == (x * x) \div Scale
        x3 == (x2 * x) \div Scale
        x4 == (x3 * x) \div Scale
    IN x - (x2 \div 2) + (x3 \div 6) - (x4 \div 24)

\* exp(-x) for x > 1 as the square of exp(-x/2), rounded to the grid: it
\* rounds to 0 once x is large
RECURSIVE ExpNeg(_)
ExpNeg(x) ==
    IF x <= Scale THEN Scale - ExpSeries(x)
    ELSE LET h == ExpNeg(x \div 2) IN (h * h) \div Scale

\* 1 - exp(-x) on the grid
OneMinusExpNeg(x) == IF x <= Scale THEN ExpSeries(x) ELSE Scale - ExpNeg(x)

\* -log(1 - p) for p < 1 by its series p + p^2/2 + p^3/3 + p^4/4
NegLogOneMinus(p) ==
    LET p2 == (p * p) \div Scale
        p3 == (p2 * p) \div Scale
        p4 == (p3 * p) \div Scale
    IN p + (p2 \div 2) + (p3 \div 3) + (p4 \div 4)

\* 1 - np.exp(-rate / YEAR_DURATION)
convert_annual_rate_to_daily_probability(r) ==
    IF IsNaN(r) THEN NaNv
    ELSE IF IsInf(r) THEN (IF r.v > 0 THEN One ELSE Inf(-1))
    ELSE Num(OneMinusExpNeg(FDivYear(r).v))

\* -np.log(1 - probability) * YEAR_DURATION: log(0) is -inf, the log of a
\* negative number is nan
convert_daily_probability_to_annual_rate(p) ==
    IF IsNaN(p) THEN NaNv
    ELSE IF IsInf(p) THEN (IF p.v < 0 THEN Inf(-1) ELSE NaNv)
    ELSE IF p.v = Scale THEN Inf(1)
    ELSE IF p.v > Scale THEN NaNv
    ELSE FMulYear(Num(NegLogOneMinus(p.v)))

\* transition_rates[age_end < START_AGE] = 0.0: the boundary stratum is missed
reset_underage_transitions_strict(stratum, v) ==
    IF stratum.age_end < START_AGE THEN Zero ELSE v

\* transition_rates[age_end <= START_AGE] = 0.0
reset_underage_transitions(stratum, v) ==
    IF stratum.age_end <= START_AGE THEN Zero ELSE v

\* exposures.div(1 + adjustment, axis='index')
adjust_exposure(exposures, adjustment) ==
    [c \in DOMAIN exposures |-> FDiv(exposures[c], FAdd(One, adjustment))]

\* r4 (named r1 in the source): 1 / MILD_WASTING_UX_RECOVERY_TIME, age gated
get_mild_wasting_remission_probability(stratum) ==
    reset_underage_transitions(stratum, Num(PerDay(MILD_WASTING_UX_RECOVERY_TIME)))

\* t1: tx_coverage * sam_tx_efficacy * YEAR_DURATION / sam_tx_recovery_time
sam_treated_remission_formula(stratum, tx_coverage, sam_tx_efficacy) ==
    LET sam_tx_recovery_time ==
            IF stratum.age_start < SIX_MONTHS THEN SAM_TX_RECOVERY_TIME_UNDER_6MO
            ELSE SAM_TX_RECOVERY_TIME_OVER_6MO
        annual_remission_rate ==
            FDivDays(FMulYear(FMul(tx_coverage, sam_tx_efficacy)), sam_tx_recovery_time)
    IN convert_annual_rate_to_daily_probability(annual_remission_rate)

get_daily_sam_treated_remission_probability(stratum, tx_coverage, sam_tx_efficacy) ==
    reset_underage_transitions(stratum, sam_treated_remission_formula(stratum, tx_coverage, sam_tx_efficacy))

\* r3: mam_tx_eff_coverage / mam_tx_recovery_time
\*     + (1 - mam_tx_eff_coverage) / MAM_UX_RECOVERY_TIME, per year
mam_remission_formula(stratum, tx_coverage, mam_tx_efficacy) ==
    LET mam_tx_recovery_time ==
            IF stratum.age_start < SIX_MONTHS THEN MAM_TX_RECOVERY_TIME_UNDER_6MO
            ELSE MAM_TX_RECOVERY_TIME_OVER_6MO
        mam_tx_eff_coverage == FMul(tx_coverage, mam_tx_efficacy)
        annual_remission_rate ==
            FAdd(FDivDays(FMulYear(mam_tx_eff_coverage), mam_tx_recovery_time),
                 FDivDays(FMulYear(FSub(One, mam_tx_eff_coverage)), MAM_UX_RECOVERY_TIME))
    IN convert_annual_rate_to_daily_probability(annual_remission_rate)

get_daily_mam_remission_probability(stratum, tx_coverage, mam_tx_efficacy) ==
    reset_underage_transitions(stratum, mam_remission_formula(stratum, tx_coverage, mam_tx_efficacy))

\* r2 without the mortality of the severe state: sam_k - t1
sam_untreated_remission_formula_no_mortality(stratum, mortality_probs, tx_coverage, sam_tx_efficacy, sam_k) ==
    LET treated_sam_remission_prob ==
            get_daily_sam_treated_remission_probability(stratum, tx_coverage, sam_tx_efficacy)
        treated_sam_remission_rate ==
            convert_daily_probability_to_annual_rate(treated_sam_remission_prob)
    IN convert_annual_rate_to_daily_probability(FSub(sam_k, treated_sam_remission_rate))

\* r2: sam_k - t1 - d1, as annual rates
sam_untreated_remission_formula(stratum, mortality_probs, tx_coverage, sam_tx_efficacy, sam_k) ==
    LET treated_sam_remission_prob ==
            get_daily_sam_treated_remission_probability(stratum, tx_coverage, sam_tx_efficacy)
        treated_sam_remission_rate ==
            convert_daily_probability_to_annual_rate(treated_sam_remission_prob)
        sam_mortality_rate ==
            convert_daily_probability_to_annual_rate(mortality_probs["cat1"])
        annual_remission_rate ==
            FSub(FSub(sam_k, treated_sam_remission_rate), sam_mortality_rate)
    IN convert_annual_rate_to_daily_probability(annual_remission_rate)

get_daily_sam_untreated_remission_probability(stratum, mortality_probs, tx_coverage, sam_tx_efficacy, sam_k) ==
    reset_underage_transitions(stratum, sam_untreated_remission_formula(stratum, mortality_probs, tx_coverage, sam_tx_efficacy, sam_k))

\* i3: ap0*f4/ap4 + ap3*r4/ap4 - d4
mild_incidence_formula(stratum, exposures, adjustment, mortality_probs) ==
    LET adj_exposures == adjust_exposure(exposures, adjustment)
        mild_remission_prob == get_mild_wasting_remission_probability(stratum)
    IN FSub(FAdd(FDiv(FMul(adjustment, exposures["cat4"]), adj_exposures["cat4"]),
                 FDiv(FMul(adj_exposures["cat3"], mild_remission_prob), adj_exposures["cat4"])),
            mortality_probs["cat4"])

get_daily_mild_incidence_probability(stratum, exposures, adjustment, mortality_probs) ==
    reset_underage_transitions(stratum, mild_incidence_formula(stratum, exposures, adjustment, mortality_probs))

\* i2: ap0*f3/ap3 + ap0*f4/ap3 + ap1*t1/ap3 + ap2*r3/ap3 - d3 - ap4*d4/ap3
mam_incidence_formula(stratum, exposures, adjustment, mortality_probs, tx_coverage, mam_tx_efficacy, sam_tx_efficacy) ==
    LET adj_exposures == adjust_exposure(exposures, adjustment)
        treated_sam_remission_prob ==
            get_daily_sam_treated_remission_probability(stratum, tx_coverage, sam_tx_efficacy)
        mam_remission_prob ==
            get_daily_mam_remission_probability(stratum, tx_coverage, mam_tx_efficacy)
        t_1 == FDiv(FMul(adjustment, exposures["cat3"]), adj_exposures["cat3"])
        t_2 == FDiv(FMul(adjustment, exposures["cat4"]), adj_exposures["cat3"])
        t_3 == FDiv(FMul(adj_exposures["cat1"], treated_sam_remission_prob), adj_exposures["cat3"])
        t_4 == FDiv(FMul(adj_exposures["cat2"], mam_remission_prob), adj_exposures["cat3"])
        t_5 == mortality_probs["cat3"]
        t_6 == FDiv(FMul(adj_exposures["cat4"], mortality_probs["cat4"]), adj_exposures["cat3"])
    IN FSub(FSub(FAdd(FAdd(FAdd(t_1, t_2), t_3), t_4), t_5), t_6)

get_daily_mam_incidence_probability(stratum, exposures, adjustment, mortality_probs, tx_coverage, mam_tx_efficacy, sam_tx_efficacy) ==
    reset_underage_transitions(stratum, mam_incidence_formula(stratum, exposures, adjustment, mortality_probs, tx_coverage, mam_tx_efficacy, sam_tx_efficacy))

\* i1: ap0*f2/ap2 + ap0*f3/ap2 + ap0*f4/ap2 + ap1*r2/ap2 + ap1*t1/ap2
\*     - d2 - ap3*d3/ap2 - ap4*d4/ap2
sam_incidence_formula(stratum, exposures, adjustment, mortality_probs, tx_coverage, sam_tx_efficacy, sam_k) ==
    LET adj_exposures == adjust_exposure(exposures, adjustment)
        treated_sam_remission_prob ==
            get_daily_sam_treated_remission_probability(stratum, tx_coverage, sam_tx_efficacy)
        untreated_sam_remission_prob ==
            get_daily_sam_untreated_remission_probability(stratum, mortality_probs, tx_coverage, sam_tx_efficacy, sam_k)
        t_1 == FDiv(FMul(adjustment, exposures["cat2"]), adj_exposures["cat2"])
        t_2 == FDiv(FMul(adjustment, exposures["cat3"]), adj_exposures["cat2"])
        t_3 == FDiv(FMul(adjustment, exposures["cat4"]), adj_exposures["cat2"])
        t_4 == FDiv(FMul(adj_exposures["cat1"], untreated_sam_remission_prob), adj_exposures["cat2"])
        t_5 == FDiv(FMul(adj_exposures["cat1"], treated_sam_remission_prob), adj_exposures["cat2"])
        t_6 == mortality_probs["cat2"]
        t_7 == FDiv(FMul(adj_exposures["cat3"], mortality_probs["cat3"]), adj_exposures["cat2"])
        t_8 == FDiv(FMul(adj_exposures["cat4"], mortality_probs["cat4"]), adj_exposures["cat2"])
    IN FSub(FSub(FSub(FAdd(FAdd(FAdd(FAdd(t_1, t_2), t_3), t_4), t_5), t_6), t_7), t_8)

get_daily_sam_incidence_probability(stratum, exposures, adjustment, mortality_probs, tx_coverage, sam_tx_efficacy, sam_k) ==
    reset_underage_transitions(stratum, sam_incidence_formula(stratum, exposures, adjustment, mortality_probs, tx_coverage, sam_tx_efficacy, sam_k))

----------------------------------------------------------------------------
(* Specification SpecCov: the coverage pipelines applied to one individual *)

Idle == "idle"

\* levels drawn once per run by get_random_variable in setup (per-mille)
LevelSets ==
    [sam_treatment_coverage_level : {0, 488, 1000},
     sam_treatment_efficacy_level : {0, 700, 1000},
     mam_treatment_coverage_level : {488, 600},
     mam_treatment_efficacy_level : {731}]

\* propensities are draws in [0, 1) (per-mille)
Propensities == {0, 488, 600, 700, 731, 999}

\* ages around the coverage start age and the six-month mark
Ages == {0, COVERAGE_START_AGE - 1, COVERAGE_START_AGE, COVERAGE_START_AGE + 1,
         START_AGE - 1, START_AGE, YEAR_DURATION}

NoMasks == [ineligible |-> FALSE, untreated |-> FALSE,
            non_responsive |-> FALSE, effectively_covered |-> FALSE]

CovInit ==
    /\ cov \in [levels : LevelSets, age : Ages,
                treatment_propensity : Propensities,
                efficacy_propensity : Propensities,
                called : {"none"}, masks : {NoMasks}, coverage : {NAN}]
    /\ rate = Idle /\ sim = Idle /\ pop = Idle /\ strat = Idle
    /\ ini = Idle /\ cfg = Idle
    /\ art = Idle /\ calc = Idle

CovCall(treatment_type) ==
    /\ cov.called = "none"
    /\ LET p == treatment_parameters(cov.levels, treatment_type)
       IN cov' = [cov EXCEPT
                    !.called = treatment_type,
                    !.masks = coverage_masks(cov.age, cov.treatment_propensity,
                                             cov.efficacy_propensity, p[1], p[2]),
                    !.coverage = treatment_coverage_source(
                                     cov.levels, treatment_type, cov.age,
                                     cov.treatment_propensity, cov.efficacy_propensity)]
    /\ UNCHANGED <<rate, sim, pop, strat, ini, cfg, art, calc>>

CovSam == CovCall("sam")

CovMam == CovCall("mam")

CovNext == CovSam \/ CovMam

SpecCov == CovInit /\ [][CovNext]_vars

CovCalled == cov.called # "none"

CovLevel == treatment_parameters(cov.levels, cov.called)

MaskCount(m) ==
    (IF m.ineligible THEN 1 ELSE 0) + (IF m.untreated THEN 1 ELSE 0)
    + (IF m.non_responsive THEN 1 ELSE 0) + (IF m.effectively_covered THEN 1 ELSE 0)

\* C1: whatever the age, the two propensities and the two levels are, exactly
\* one of the four masks ineligible, untreated, non_responsive and
\* effectively_covered holds for the individual, and the coverage series
\* holds the class of that mask (never the missing value).
C1_ExactlyOneClass ==
    CovCalled =>
        /\ MaskCount(cov.masks) = 1
        /\ cov.coverage \in CoverageClasses
        /\ cov.masks.ineligible <=> cov.coverage = INELIGIBLE
        /\ cov.masks.untreated <=> cov.coverage = UNTREATED
        /\ cov.masks.non_responsive <=> cov.coverage = NON_RESPONSIVE
        /\ cov.masks.effectively_covered <=> cov.coverage = EFFECTIVELY_COVERED

\* an eligible, treated individual whose efficacy propensity equals the
\* efficacy level has been classified
C1_Witness ==
    /\ CovCalled
    /\ cov.age >= COVERAGE_START_AGE
    /\ cov.treatment_propensity < CovLevel[1]
    /\ cov.efficacy_propensity = CovLevel[2]
    /\ cov.coverage = NON_RESPONSIVE

\* C2: the classification is the ordered decision list: ineligible iff
\* age < COVERAGE_START_AGE; else untreated iff coverage level <= treatment
\* propensity; else non_responsive iff efficacy level <= efficacy
\* propensity; else effectively_covered.  Equality goes to the earlier class.
C2_DecisionList ==
    CovCalled =>
        cov.coverage =
            IF cov.age < COVERAGE_START_AGE THEN INELIGIBLE
            ELSE IF CovLevel[1] <= cov.treatment_propensity THEN UNTREATED
            ELSE IF CovLevel[2] <= cov.efficacy_propensity THEN NON_RESPONSIVE
            ELSE EFFECTIVELY_COVERED

\* age equal to the coverage start age and treatment propensity equal to
\* the coverage level: classified untreated
C2_Witness ==
    /\ CovCalled
    /\ cov.age = COVERAGE_START_AGE
    /\ cov.treatment_propensity = CovLevel[1]
    /\ cov.coverage = UNTREATED

----------------------------------------------------------------------------
(* Specification SpecRates: the seven rate loaders applied to one stratum *)

\* GBD 2020 age bins under five: 0-6 days, 7-27 days, 1-5 months,
\* 6-11 months, 12-23 months, 2-4 years
AgeBins ==
    {[age_start |-> 0, age_end |-> 56],
     [age_start |-> 56, age_end |-> 224],
     [age_start |-> 224, age_end |-> START_AGE],
     [age_start |-> START_AGE, age_end |-> YEAR_DURATION],
     [age_start |-> YEAR_DURATION, age_end |-> 2 * YEAR_DURATION],
     [age_start |-> 2 * YEAR_DURATION, age_end |-> 5 * YEAR_DURATION]}

Categories == {"cat1", "cat2", "cat3", "cat4"}

Table(c1, c2, c3, c4) ==
    [c \in Categories |->
        Num(IF c = "cat1" THEN c1 ELSE IF c = "cat2" THEN c2
            ELSE IF c = "cat3" THEN c3 ELSE c4)]

\* category exposures of a stratum; they sum to 1 and some are 0
ExposureSet ==
    {Table(500, 1000, 2500, 6000), Table(0, 0, 0, 10000),
     Table(5000, 5000, 0, 0), Table(0, 0, 10000, 0)}

\* daily all-cause mortality probability of a stratum
AdjustmentSet == {Num(0), Num(10), Num(100)}

\* daily mortality probability by wasting category
MortalitySet ==
    {Table(0, 0, 0, 0), Table(100, 50, 20, 10), Table(10000, 50, 20, 10)}

TxCoverageSet == {Num(0), Num(4880)}

SamTxEfficacySet == {Num(7000)}

MamTxEfficacySet == {Num(7310)}

SamKSet == {Num(67000)}

RatesInit ==
    /\ rate \in [stratum : AgeBins, exposures : ExposureSet,
                 adjustment : AdjustmentSet, mortality_probs : MortalitySet,
                 tx_coverage : TxCoverageSet, sam_tx_efficacy : SamTxEfficacySet,
                 mam_tx_efficacy : MamTxEfficacySet, sam_k : SamKSet,
                 solver : {"none"}, daily : {NaNv}, annual : {NaNv}]
    /\ cov = Idle /\ sim = Idle /\ pop = Idle /\ strat = Idle
    /\ ini = Idle /\ cfg = Idle
    /\ art = Idle /\ calc = Idle

\* a loader: the daily probability of the solver, then its annual rate
Load(name, daily_probability) ==
    /\ rate.solver = "none"
    /\ rate' = [rate EXCEPT
                  !.solver = name,
                  !.daily = daily_probability,
                  !.annual = convert_daily_probability_to_annual_rate(daily_probability)]
    /\ UNCHANGED <<cov, sim, pop, strat, ini, cfg, art, calc>>

load_mild_wasting_incidence_rate ==
    Load("i3", get_daily_mild_incidence_probability(
                   rate.stratum, rate.exposures, rate.adjustment, rate.mortality_probs))

load_mild_wasting_remission_rate ==
    Load("r4", get_mild_wasting_remission_probability(rate.stratum))

load_mam_incidence_rate ==
    Load("i2", get_daily_mam_incidence_probability(
                   rate.stratum, rate.exposures, rate.adjustment, rate.mortality_probs,
                   rate.tx_coverage, rate.mam_tx_efficacy, rate.sam_tx_efficacy))

load_mam_remission_rate ==
    Load("r3", get_daily_mam_remission_probability(
                   rate.stratum, rate.tx_coverage, rate.mam_tx_efficacy))

load_sam_incidence_rate ==
    Load("i1", get_daily_sam_incidence_probability(
                   rate.stratum, rate.exposures, rate.adjustment, rate.mortality_probs,
                   rate.tx_coverage, rate.sam_tx_efficacy, rate.sam_k))

load_sam_untreated_remission_rate ==
    Load("r2", get_daily_sam_untreated_remission_probability(
                   rate.stratum, rate.mortality_probs, rate.tx_coverage,
                   rate.sam_tx_efficacy, rate.sam_k))

load_sam_treated_remission_rate ==
    Load("t1", get_daily_sam_treated_remission_probability(
                   rate.stratum, rate.tx_coverage, rate.sam_tx_efficacy))

RatesNext ==
    \/ load_mild_wasting_incidence_rate
    \/ load_mild_wasting_remission_rate
    \/ load_mam_incidence_rate
    \/ load_mam_remission_rate
    \/ load_sam_incidence_rate
    \/ load_sam_untreated_remission_rate
    \/ load_sam_treated_remission_rate

SpecRates == RatesInit /\ [][RatesNext]_vars

\* C3: in a stratum with age_end <= WASTING.START_AGE each of the seven
\* solvers returns exactly 0, as daily probability and as annual rate,
\* whatever the exposures, mortality probabilities and treatment parameters
\* are, also where the formula itself is undefined (0 / 0 or x / 0).
C3_UnderageRatesZero ==
    (rate.solver # "none" /\ rate.stratum.age_end <= START_AGE) =>
        (rate.daily = Zero /\ rate.annual = Zero)

\* the mild-incidence solver has run on the stratum that ends at the start
\* age, with a TMREL exposure of 0: its formula is not a number there
C3_Witness ==
    /\ rate.solver = "i3"
    /\ rate.stratum.age_end = START_AGE
    /\ ~IsNum(mild_incidence_formula(rate.stratum, rate.exposures,
                                     rate.adjustment, rate.mortality_probs))
    /\ rate.daily = Zero

----------------------------------------------------------------------------
(* The wired wasting state machine (ChildWasting) and the value modifiers  *)
(* of its transition rates (SQLNSTreatment, WastingTreatment)              *)

WASTING_SUSCEPTIBLE_STATE_NAME == "susceptible_to_child_wasting"
MILD_WASTING_STATE_NAME == "mild_child_wasting"
MODERATE_WASTING_STATE_NAME == "moderate_acute_malnutrition"
SEVERE_WASTING_STATE_NAME == "severe_acute_malnutrition"

WASTING_MODEL_STATES ==
    {WASTING_SUSCEPTIBLE_STATE_NAME, MILD_WASTING_STATE_NAME,
     MODERATE_WASTING_STATE_NAME, SEVERE_WASTING_STATE_NAME}

Edge(from, to, solver) == [from |-> from, to |-> to, solver |-> solver]

\* a slip in the wiring: the treated remission of severe leads to tmrel
ChildWasting_severe_to_tmrel ==
    {Edge(WASTING_SUSCEPTIBLE_STATE_NAME, MILD_WASTING_STATE_NAME, "i3"),
     Edge(MILD_WASTING_STATE_NAME, MODERATE_WASTING_STATE_NAME, "i2"),
     Edge(MILD_WASTING_STATE_NAME, WASTING_SUSCEPTIBLE_STATE_NAME, "r4"),
     Edge(MODERATE_WASTING_STATE_NAME, SEVERE_WASTING_STATE_NAME, "i1"),
     Edge(MODERATE_WASTING_STATE_NAME, MILD_WASTING_STATE_NAME, "r3"),
     Edge(SEVERE_WASTING_STATE_NAME, MODERATE_WASTING_STATE_NAME, "r2"),
     Edge(SEVERE_WASTING_STATE_NAME, WASTING_SUSCEPTIBLE_STATE_NAME, "t1")}

\* the add_transition calls of ChildWasting, each with its rate loader
ChildWasting ==
    {Edge(WASTING_SUSCEPTIBLE_STATE_NAME, MILD_WASTING_STATE_NAME, "i3"),
     Edge(MILD_WASTING_STATE_NAME, MODERATE_WASTING_STATE_NAME, "i2"),
     Edge(MILD_WASTING_STATE_NAME, WASTING_SUSCEPTIBLE_STATE_NAME, "r4"),
     Edge(MODERATE_WASTING_STATE_NAME, SEVERE_WASTING_STATE_NAME, "i1"),
     Edge(MODERATE_WASTING_STATE_NAME, MILD_WASTING_STATE_NAME, "r3"),
     Edge(SEVERE_WASTING_STATE_NAME, MODERATE_WASTING_STATE_NAME, "r2"),
     Edge(SEVERE_WASTING_STATE_NAME, MILD_WASTING_STATE_NAME, "t1")}

\* models.get_risk_category: the GBD exposure category of a wasting state
get_risk_category(state_name) ==
    IF state_name = WASTING_SUSCEPTIBLE_STATE_NAME THEN "cat4"
    ELSE IF state_name = MILD_WASTING_STATE_NAME THEN "cat3"
    ELSE IF state_name = MODERATE_WASTING_STATE_NAME THEN "cat2"
    ELSE "cat1"

\* RiskModel.get_current_exposure: reads the state column, writes nothing
get_current_exposure(population) ==
    [i \in DOMAIN population |-> get_risk_category(population[i].child_wasting)]

\* the artifact data of the run and the draws of get_random_variable
RunData ==
    [exposures |-> Table(500, 1000, 2500, 6000), adjustment |-> Num(1),
     mortality_probs |-> Table(4, 3, 2, 1), tx_coverage |-> Num(4880),
     sam_tx_efficacy |-> Num(7000), mam_tx_efficacy |-> Num(7310),
     sam_k |-> Num(67000), wasting_risk_ratio |-> Num(8200)]

\* the levels drawn in WastingTreatment.setup
RunLevels ==
    [sam_treatment_coverage_level |-> 488, sam_treatment_efficacy_level |-> 700,
     mam_treatment_coverage_level |-> 488, mam_treatment_efficacy_level |-> 731]

\* the daily probability of a solver on a stratum of the run's data
daily_probability(solver, stratum) ==
    LET d == RunData
    IN CASE solver = "i3" ->
              get_daily_mild_incidence_probability(stratum, d.exposures, d.adjustment, d.mortality_probs)
         [] solver = "r4" -> get_mild_wasting_remission_probability(stratum)
         [] solver = "i2" ->
              get_daily_mam_incidence_probability(stratum, d.exposures, d.adjustment, d.mortality_probs,
                                                  d.tx_coverage, d.mam_tx_efficacy, d.sam_tx_efficacy)
         [] solver = "r3" ->
              get_daily_mam_remission_probability(stratum, d.tx_coverage, d.mam_tx_efficacy)
         [] solver = "i1" ->
              get_daily_sam_incidence_probability(stratum, d.exposures, d.adjustment, d.mortality_probs,
                                                  d.tx_coverage, d.sam_tx_efficacy, d.sam_k)
         [] solver = "r2" ->
              get_daily_sam_untreated_remission_probability(stratum, d.mortality_probs, d.tx_coverage,
                                                            d.sam_tx_efficacy, d.sam_k)
         [] OTHER -> get_daily_sam_treated_remission_probability(stratum, d.tx_coverage, d.sam_tx_efficacy)

\* the stratum of the rate table that holds an age
stratum_of(age) == CHOOSE b \in AgeBins : b.age_start <= age /\ age < b.age_end

\* the source of a transition-rate pipeline: the loader's annual rate, looked
\* up by the current age of the individual
rate_source(solver, age) ==
    convert_daily_probability_to_annual_rate(daily_probability(solver, stratum_of(age)))

\* SQ_LNS constants of data_values.py (ages in age units, levels per-mille)
SQ_LNS_COVERAGE_START_AGE == 1461
SQ_LNS_COVERAGE_BASELINE == 0
SQ_LNS_COVERAGE_RAMP_UP == 900

\* SCALE_UP_START_DT = datetime(2023, 1, 1); the clock counts days from it
SCALE_UP_START_DT == 0

\* SQLNSTreatment.get_current_coverage
get_current_coverage(age, propensity) ==
    propensity < SQ_LNS_COVERAGE_BASELINE /\ SQ_LNS_COVERAGE_START_AGE <= age

\* a modifier that returns the scale-up coverage in place of the incoming one
coverage_effect_replacing(scenario, clock, age, propensity, target) ==
    IF scenario.has_sqlns /\ SCALE_UP_START_DT <= clock
    THEN SQ_LNS_COVERAGE_START_AGE <= age /\ propensity < SQ_LNS_COVERAGE_RAMP_UP
    ELSE target

\* SQLNSIntervention.coverage_effect, the modifier of sq_lns.coverage
coverage_effect(scenario, clock, age, propensity, target) ==
    LET effect ==
            IF scenario.has_sqlns /\ SCALE_UP_START_DT <= clock
            THEN SQ_LNS_COVERAGE_START_AGE <= age /\ propensity < SQ_LNS_COVERAGE_RAMP_UP
            ELSE FALSE
    IN target \/ effect

\* a pipeline whose modifier sees the clock stopped at the scale-up date
sq_lns_coverage_until_scale_up(scenario, clock, age, propensity) ==
    coverage_effect(scenario, IF clock > SCALE_UP_START_DT THEN SCALE_UP_START_DT - 1 ELSE clock,
                    age, propensity, get_current_coverage(age, propensity))

\* the sq_lns.coverage pipeline: source, then its modifier
sq_lns_coverage(scenario, clock, age, propensity) ==
    coverage_effect(scenario, clock, age, propensity, get_current_coverage(age, propensity))

\* SQLNSTreatment.apply_wasting_treatment
apply_wasting_treatment(covered, target) ==
    IF covered THEN FMul(target, RunData.wasting_risk_ratio) ELSE target

\* data_values.WASTING.SAM_UX_RECOVERY_TIME, the untreated recovery time the
\* modifier of severe->moderate divides by (tenths of a day).  data_values.py
\* gives it no number; the modifier only needs a positive duration, and the
\* untreated duration of MAM stands for it.
SAM_UX_RECOVERY_TIME == MAM_UX_RECOVERY_TIME

\* WastingTreatment.apply_sam_treatment_modifier
apply_sam_treatment_modifier(age, coverage, target) ==
    LET young_effective == coverage = EFFECTIVELY_COVERED /\ age < SIX_MONTHS
        old_effective == coverage = EFFECTIVELY_COVERED /\ SIX_MONTHS <= age
        unaffected == coverage \in {UNTREATED, NON_RESPONSIVE} /\ COVERAGE_START_AGE < age
        t_1 == IF young_effective THEN Num(PerDay(SAM_TX_RECOVERY_TIME_UNDER_6MO)) ELSE target
        t_2 == IF old_effective THEN Num(PerDay(SAM_TX_RECOVERY_TIME_OVER_6MO)) ELSE t_1
    IN IF unaffected THEN Zero ELSE t_2

\* WastingTreatment.apply_sam_non_treatment_modifier
apply_sam_non_treatment_modifier(coverage, target) ==
    LET effective == coverage = EFFECTIVELY_COVERED
        unaffected == coverage \in {UNTREATED, NON_RESPONSIVE}
        t_1 == IF effective THEN Zero ELSE target
    IN IF unaffected THEN Num(PerDay(SAM_UX_RECOVERY_TIME)) ELSE t_1

\* WastingTreatment.apply_mam_treatment_modifier
apply_mam_treatment_modifier(age, coverage, target) ==
    LET young_effective == coverage = EFFECTIVELY_COVERED /\ age < SIX_MONTHS
        old_effective == coverage = EFFECTIVELY_COVERED /\ SIX_MONTHS <= age
        unaffected == coverage \in {UNTREATED, NON_RESPONSIVE} /\ COVERAGE_START_AGE < age
        t_1 == IF young_effective THEN Num(PerDay(MAM_TX_RECOVERY_TIME_UNDER_6MO)) ELSE target
        t_2 == IF old_effective THEN Num(PerDay(MAM_TX_RECOVERY_TIME_OVER_6MO)) ELSE t_1
    IN IF unaffected THEN Num(PerDay(MAM_UX_RECOVERY_TIME)) ELSE t_2

\* the {from}_to_{to}.transition_rate pipeline of an edge for one individual:
\* the source, then the modifier registered on that pipeline.  All three
\* wasting-treatment modifiers read get_sam_treatment_coverage_source.
transition_rate(edge, person, scenario, clock) ==
    LET source == rate_source(edge.solver, person.age)
        coverage == get_sam_treatment_coverage_source(
                        RunLevels, person.age, person.wasting_treatment_propensity,
                        person.wasting_treatment_efficacy_propensity)
    IN CASE edge.solver = "i2" ->
              apply_wasting_treatment(
                  sq_lns_coverage(scenario, clock, person.age, person.sq_lns_propensity), source)
         [] edge.solver = "t1" -> apply_sam_treatment_modifier(person.age, coverage, source)
         [] edge.solver = "r2" -> apply_sam_non_treatment_modifier(coverage, source)
         [] edge.solver = "r3" -> apply_mam_treatment_modifier(person.age, coverage, source)
         [] OTHER -> source

\* a rate the host turns into a positive transition probability
Positive(v) == ~IsNaN(v) /\ v.v > 0

\* the states an individual can be in after the host's transition step:
\* its state (self transitions are allowed) or the target of an outgoing
\* edge whose rate is positive
next_states(person, scenario, clock) ==
    {person.child_wasting} \cup
    {e.to : e \in {t \in ChildWasting : /\ t.from = person.child_wasting
                                        /\ Positive(transition_rate(t, person, scenario, clock))}}

----------------------------------------------------------------------------
(* The results stratifier and the observers                                *)

\* the cache before the first time_step__prepare: no series, no index
None == << >>

NoRead == [by |-> "nobody"]

\* ResultsStratifier.get_stratification_key for the one level wasting_state
get_stratification_key(category) == "wasting_state" \o "_" \o category

\* ResultsStratifier.get_stratification_groups: the group name of every
\* individual, from the child_wasting.exposure pipeline at the time of call
get_stratification_groups(population) ==
    [i \in DOMAIN population |->
        get_stratification_key(get_current_exposure(population)[i])]

\* a stratifier that fills its cache once and keeps it
on_timestep_prepare_once(stratification_groups, population) ==
    IF stratification_groups = None
    THEN get_stratification_groups(population) ELSE stratification_groups

\* ResultsStratifier.on_timestep_prepare: the new value of the cache
on_timestep_prepare(stratification_groups, population) ==
    get_stratification_groups(population)

\* ResultsStratifier.group: the label under which each individual of the
\* population is yielded, read from the cache
group(stratification_groups, population) ==
    [i \in DOMAIN population |-> stratification_groups[i]]

\* a write-back that copies the previous-state column over the state column
prior_state_pop_swapped(person) ==
    [person EXCEPT !.child_wasting = person.previous_child_wasting]

\* DiseaseObserver.on_time_step_prepare, lines 215-217: the row written back
prior_state_pop(person) ==
    [person EXCEPT !.previous_child_wasting = person.child_wasting]

\* the transitions the disease observer counts: the edges of the machine
transitions == {<<e.from, e.to>> : e \in ChildWasting}

\* a count of everyone who is in the to-state, whatever the previous state
get_transition_count_into_state(population, pop_in_group, transition) ==
    {i \in pop_in_group : population[i].child_wasting = transition[2]}

\* get_transition_count: the individuals of the subgroup whose previous
\* state is the from-state and whose state is the to-state
get_transition_count(population, pop_in_group, transition) ==
    {i \in pop_in_group :
        /\ population[i].previous_child_wasting = transition[1]
        /\ population[i].child_wasting = transition[2]}

\* DiseaseObserver.on_collect_metrics: per transition, the individuals
\* counted in this step over all the subgroups group() yields
transition_counts(stratification_groups, population) ==
    LET labels == group(stratification_groups, population)
        keys == {get_stratification_key(c) : c \in {"cat1", "cat2", "cat3", "cat4"}}
    IN [t \in transitions |->
           UNION {get_transition_count(population, {i \in DOMAIN population : labels[i] = key}, t) :
                     key \in keys}]

----------------------------------------------------------------------------
(* Specification SpecRun: the time steps of a run                          *)

\* the simulants of a run
Simulants == {1, 2}

\* the number of time steps a run may take
MaxSteps == 2

\* the step size, one day, in age units
StepSize == AgeUnitsPerDay

\* scenarios.SCENARIOS
SCENARIOS ==
    [baseline |-> [has_alternative_treatment |-> FALSE, has_sqlns |-> FALSE],
     wasting_treatment |-> [has_alternative_treatment |-> TRUE, has_sqlns |-> FALSE],
     sqlns |-> [has_alternative_treatment |-> TRUE, has_sqlns |-> TRUE]]

\* the scenarios a run is configured with
RunScenarios == {"baseline", "sqlns"}

\* ages at the start of a run: a day below the treatment start age, between
\* the treatment start age and the model's start age, a day below the
\* model's start age, and at it
RunAges == {COVERAGE_START_AGE - StepSize, 800, START_AGE - StepSize, START_AGE}

\* (treatment propensity, efficacy propensity) draws: effectively covered,
\* non responsive and untreated at the levels of the run
RunPropensities == {<<100, 100>>, <<100, 900>>, <<600, 100>>}

\* the stratifiers of the observers, each a sub-component with its own cache
MORTALITY_STRATIFIER == "mortality_observer_results_stratifier"
DISEASE_STRATIFIER == "child_wasting_disease_observer_results_stratifier"

Stratifiers == {MORTALITY_STRATIFIER, DISEASE_STRATIFIER}

\* the population table after the simulants are initialized
Person(age, state, p, sq) ==
    [age |-> age, child_wasting |-> state, previous_child_wasting |-> "",
     wasting_treatment_propensity |-> p[1],
     wasting_treatment_efficacy_propensity |-> p[2], sq_lns_propensity |-> sq]

People ==
    {Person(a, st, p, 500) : a \in RunAges, st \in WASTING_MODEL_STATES, p \in RunPropensities}

RunInit ==
    /\ pop \in [Simulants -> People]
    /\ sim \in [pc : {"time_step__prepare"}, step : {0}, clock : {-1},
                scenario : RunScenarios, pending : {Stratifiers}]
    /\ strat = [stratification_groups |-> [o \in Stratifiers |-> None], read |-> NoRead]
    /\ cov = Idle /\ rate = Idle /\ ini = Idle /\ cfg = Idle
    /\ art = Idle /\ calc = Idle

\* time_step__prepare, priority 0: the stratifer of an observer caches
ResultsStratifier_on_timestep_prepare ==
    /\ sim.pc = "time_step__prepare"
    /\ sim.step < MaxSteps
    /\ \E o \in sim.pending :
         /\ strat' = [stratification_groups |->
                          [strat.stratification_groups EXCEPT
                              ![o] = on_timestep_prepare(strat.stratification_groups[o], pop)],
                      read |-> NoRead]
         /\ sim' = [sim EXCEPT !.pending = sim.pending \ {o}]
    /\ UNCHANGED <<pop, cov, rate, ini, cfg, art, calc>>

\* time_step__prepare, priority 5: person time by group, then the previous
\* state column is set and the rows are written back
DiseaseObserver_on_time_step_prepare ==
    /\ sim.pc = "time_step__prepare"
    /\ sim.pending = {}
    /\ strat' = [strat EXCEPT
                   !.read = [by |-> "on_time_step_prepare",
                             groups |-> group(strat.stratification_groups[DISEASE_STRATIFIER], pop)]]
    /\ pop' = [i \in Simulants |-> prior_state_pop(pop[i])]
    /\ sim' = [sim EXCEPT !.pc = "time_step"]
    /\ UNCHANGED <<cov, rate, ini, cfg, art, calc>>

\* time_step: the state machine moves each individual once (priority 5),
\* then the population ages by the step (priority 8) and the clock advances
Machine_transition ==
    /\ sim.pc = "time_step"
    /\ \E to \in [Simulants -> WASTING_MODEL_STATES] :
         /\ \A i \in Simulants :
               to[i] \in next_states(pop[i], SCENARIOS[sim.scenario], sim.clock)
         /\ pop' = [i \in Simulants |->
                       [pop[i] EXCEPT !.child_wasting = to[i], !.age = pop[i].age + StepSize]]
    /\ sim' = [sim EXCEPT !.pc = "collect_metrics", !.clock = sim.clock + 1]
    /\ strat' = [strat EXCEPT !.read = NoRead]
    /\ UNCHANGED <<cov, rate, ini, cfg, art, calc>>

\* collect_metrics: transition counts by group; the step ends
DiseaseObserver_on_collect_metrics ==
    /\ sim.pc = "collect_metrics"
    /\ strat' = [strat EXCEPT
                   !.read = [by |-> "on_collect_metrics",
                             groups |-> group(strat.stratification_groups[DISEASE_STRATIFIER], pop),
                             counts |-> transition_counts(
                                            strat.stratification_groups[DISEASE_STRATIFIER], pop)]]
    /\ sim' = [sim EXCEPT !.pc = "time_step__prepare", !.step = sim.step + 1,
                          !.pending = Stratifiers]
    /\ UNCHANGED <<pop, cov, rate, ini, cfg, art, calc>>

\* the report at the end of the run: deaths and years of life lost by group
\* (a cache that was never filled has no index: group raises)
MortalityObserver_metrics ==
    /\ sim.pc = "time_step__prepare"
    /\ sim.pending = Stratifiers
    /\ IF strat.stratification_groups[MORTALITY_STRATIFIER] = None
       THEN /\ sim' = [sim EXCEPT !.pc = "failed"]
            /\ strat' = [strat EXCEPT !.read = NoRead]
       ELSE /\ sim' = [sim EXCEPT !.pc = "finished"]
            /\ strat' = [strat EXCEPT
                           !.read = [by |-> "metrics",
                                     groups |-> group(strat.stratification_groups[MORTALITY_STRATIFIER], pop)]]
    /\ UNCHANGED <<pop, cov, rate, ini, cfg, art, calc>>

RunNext ==
    \/ ResultsStratifier_on_timestep_prepare
    \/ DiseaseObserver_on_time_step_prepare
    \/ Machine_transition
    \/ DiseaseObserver_on_collect_metrics
    \/ MortalityObserver_metrics

SpecRun == RunInit /\ [][RunNext]_vars

\* the rates the state machine sees on the outgoing edges of an individual
outgoing_rates(i) ==
    {transition_rate(e, pop[i], SCENARIOS[sim.scenario], sim.clock) :
        e \in {t \in ChildWasting : t.from = pop[i].child_wasting}}

\* C4 (as stated): an individual whose age is below START_AGE sees the rate
\* 0 on every outgoing edge, after all modifiers, and never changes wasting
\* state while it is below START_AGE.
C4_UnderageNeverMoves ==
    /\ [](\A i \in Simulants : pop[i].age < START_AGE => outgoing_rates(i) \subseteq {Zero})
    /\ [][\A i \in Simulants :
            pop[i].age < START_AGE => pop'[i].child_wasting = pop[i].child_wasting]_vars

\* C5: every individual is in exactly one of the four wasting states, and
\* the state column changes only in the host's transition step: no handler
\* of the observers or stratifiers, and no pipeline they call, writes it.
C5_OneStateHostOnly ==
    /\ [](\A i \in Simulants : pop[i].child_wasting \in WASTING_MODEL_STATES)
    /\ [][(\E i \in Simulants : pop'[i].child_wasting # pop[i].child_wasting)
              => sim.pc = "time_step"]_vars

\* an individual moved in the second time step, after the observers wrote
\* their rows back twice
C5_Witness ==
    /\ sim.pc = "collect_metrics"
    /\ sim.step = 1
    /\ \E i \in Simulants :
         /\ pop[i].previous_child_wasting \in WASTING_MODEL_STATES
         /\ pop[i].child_wasting # pop[i].previous_child_wasting

\* the seven state changes the claim allows
WiredEdges ==
    {<<WASTING_SUSCEPTIBLE_STATE_NAME, MILD_WASTING_STATE_NAME>>,
     <<MILD_WASTING_STATE_NAME, MODERATE_WASTING_STATE_NAME>>,
     <<MILD_WASTING_STATE_NAME, WASTING_SUSCEPTIBLE_STATE_NAME>>,
     <<MODERATE_WASTING_STATE_NAME, SEVERE_WASTING_STATE_NAME>>,
     <<MODERATE_WASTING_STATE_NAME, MILD_WASTING_STATE_NAME>>,
     <<SEVERE_WASTING_STATE_NAME, MODERATE_WASTING_STATE_NAME>>,
     <<SEVERE_WASTING_STATE_NAME, MILD_WASTING_STATE_NAME>>}

\* C6: in one step the wasting state of an individual stays or changes
\* along one of the seven wired edges; no other change happens.
C6_WiredEdgesOnly ==
    [][\A i \in Simulants :
          \/ pop'[i].child_wasting = pop[i].child_wasting
          \/ <<pop[i].child_wasting, pop'[i].child_wasting>> \in WiredEdges]_vars

\* one individual took the treated remission severe -> mild in a step while
\* the other took an incidence edge
C6_Witness ==
    /\ sim.pc = "collect_metrics"
    /\ pop[1].previous_child_wasting = SEVERE_WASTING_STATE_NAME
    /\ pop[1].child_wasting = MILD_WASTING_STATE_NAME
    /\ pop[2].previous_child_wasting = MODERATE_WASTING_STATE_NAME
    /\ pop[2].child_wasting = SEVERE_WASTING_STATE_NAME

\* the group of an individual computed from a wasting state
group_of(state) == get_stratification_key(get_risk_category(state))

\* C9 (as stated): whenever an observer reads the groups, the group of each
\* individual is the one of its wasting state at the moment of reading.
C9_GroupOfCurrentState ==
    strat.read # NoRead =>
        \A i \in Simulants : strat.read.groups[i] = group_of(pop[i].child_wasting)

\* C9 (amended): whenever an observer reads the groups, the group of each
\* individual is the one of its wasting state at the time_step__prepare of
\* the current step (the state DiseaseObserver keeps as previous state),
\* never one of an earlier step.
C9_GroupOfStepStart ==
    strat.read # NoRead =>
        \A i \in Simulants : strat.read.groups[i] = group_of(pop[i].previous_child_wasting)

\* a read at collect_metrics of the second step, after an individual moved
\* in the first step and again in the second
C9_Witness ==
    /\ strat.read # NoRead
    /\ strat.read.by = "on_collect_metrics"
    /\ sim.step = MaxSteps
    /\ \E i \in Simulants :
         /\ pop[i].child_wasting # pop[i].previous_child_wasting
         /\ strat.read.groups[i] = group_of(pop[i].previous_child_wasting)

----------------------------------------------------------------------------
(* Specification SpecInit: the simulant initializers of the treatment      *)
(* components and the population columns they write                        *)

SQLNS_TREATMENT == "SQLNSTreatment"
WASTING_TREATMENT == "WastingTreatment"

InitComponents == {SQLNS_TREATMENT, WASTING_TREATMENT}

PropensityColumns ==
    {"sq_lns_propensity", "wasting_treatment_propensity",
     "wasting_treatment_efficacy_propensity"}

\* creates_columns of builder.population.initializes_simulants
creates_columns(component) ==
    IF component = SQLNS_TREATMENT THEN {"sq_lns_propensity"}
    ELSE {"wasting_treatment_propensity", "wasting_treatment_efficacy_propensity"}

\* required_columns of builder.population.get_view
required_columns(component) ==
    IF component = SQLNS_TREATMENT THEN {"age", "sq_lns_propensity"}
    ELSE {"age", "wasting_treatment_propensity", "wasting_treatment_efficacy_propensity"}

\* the name of the one series on_initialize_simulants hands to update
series_name(component) == "sq_lns_propensity"

\* the randomness stream the series is drawn from
series_stream(component) ==
    IF component = SQLNS_TREATMENT THEN "initial_sq_lns_propensity"
    ELSE "initial_wasting_treatment_propensity"

\* get_draw of a stream: a propensity per simulant (per-mille)
Draws == {100, 500, 900}

\* the state table with a column written for every simulant
write_column(table, name, draw) ==
    [i \in DOMAIN table |->
        [c \in (DOMAIN table[i]) \cup {name} |-> IF c = name THEN draw[i] ELSE table[i][c]]]

\* PopulationView.update with a series: the columns the host may write.  A
\* series named after a column of the view updates it, a series on a view
\* of one column updates that column; any other series is an error in the
\* host, and a host that does not look at the view writes the named column.
update_outcomes(component) ==
    IF series_name(component) \in required_columns(component)
    THEN {"written"}
    ELSE {"PopulationError", "written"}

InitInit ==
    /\ \E age \in [Simulants -> {0, START_AGE}] :
         ini = [table |-> [i \in Simulants |-> [c \in {"age"} |-> age[i]]],
                done |-> {}, written |-> [c \in InitComponents |-> {}],
                failed |-> FALSE, step |-> 0]
    /\ cov = Idle /\ rate = Idle /\ sim = Idle /\ pop = Idle
    /\ strat = Idle /\ cfg = Idle
    /\ art = Idle /\ calc = Idle

\* on_initialize_simulants of a component: one series of draws, one update
on_initialize_simulants(component) ==
    /\ component \notin ini.done
    /\ ~ini.failed
    /\ \E draw \in [Simulants -> Draws], outcome \in update_outcomes(component) :
         IF outcome = "written"
         THEN ini' = [ini EXCEPT
                        !.table = write_column(ini.table, series_name(component), draw),
                        !.written[component] = {series_name(component)},
                        !.done = ini.done \cup {component}]
         ELSE ini' = [ini EXCEPT !.failed = TRUE, !.done = ini.done \cup {component}]
    /\ UNCHANGED <<cov, rate, sim, pop, strat, cfg, art, calc>>

SQLNSTreatment_on_initialize_simulants == on_initialize_simulants(SQLNS_TREATMENT)

WastingTreatment_on_initialize_simulants == on_initialize_simulants(WASTING_TREATMENT)

\* a time step after the initialization: the population ages, no component
\* of the repository writes a propensity column
InitTimeStep ==
    /\ ini.done = InitComponents
    /\ ~ini.failed
    /\ ini.step < MaxSteps
    /\ ini' = [ini EXCEPT
                 !.step = ini.step + 1,
                 !.table = [i \in Simulants |->
                               [ini.table[i] EXCEPT !["age"] = ini.table[i]["age"] + StepSize]]]
    /\ UNCHANGED <<cov, rate, sim, pop, strat, cfg, art, calc>>

InitNext ==
    \/ SQLNSTreatment_on_initialize_simulants
    \/ WastingTreatment_on_initialize_simulants
    \/ InitTimeStep

SpecInit == InitInit /\ [][InitNext]_vars

\* C7 (as stated): a component's initializer leaves every propensity column
\* the component declared with a value for every simulant, and a propensity
\* column that has a value keeps it for the rest of the run, whatever the
\* order of the initializers and the later time steps.
C7_PropensitySetOnce ==
    /\ [](\A component \in ini.done : \A i \in Simulants :
             creates_columns(component) \subseteq DOMAIN ini.table[i])
    /\ [][\A i \in Simulants : \A c \in PropensityColumns \cap DOMAIN ini.table[i] :
             c \in DOMAIN ini'.table[i] /\ ini'.table[i][c] = ini.table[i][c]]_vars

\* C8 (as stated): the columns a component's initializer writes are exactly
\* the columns it declared in creates_columns (so none of another
\* component); WastingTreatment writes its two columns and not
\* sq_lns_propensity.
C8_SingleWriter ==
    \A component \in ini.done : ini.written[component] = creates_columns(component)

----------------------------------------------------------------------------
(* Specification SpecCfg: the scenario lookup of the intervention          *)
(* components at setup, and the loader lookup of get_data                  *)

SQLNS_INTERVENTION == "sqlns_intervention"
WASTING_TREATMENT_INTERVENTION == "wasting_treatment_intervention"

InterventionComponents == {SQLNS_INTERVENTION, WASTING_TREATMENT_INTERVENTION}

\* values of configuration.intervention.scenario: the keys of SCENARIOS and
\* names that are not keys
ConfiguredScenarios == DOMAIN SCENARIOS \cup {"sq_lns", "Baseline", ""}

\* a lookup that falls back to the baseline scenario
scenario_lookup_default(name) ==
    IF name \in DOMAIN SCENARIOS
    THEN [error |-> "none", scenario |-> SCENARIOS[name]]
    ELSE [error |-> "none", scenario |-> SCENARIOS["baseline"]]

\* scenarios.SCENARIOS[builder.configuration.intervention.scenario]
scenario_lookup(name) ==
    IF name \in DOMAIN SCENARIOS
    THEN [error |-> "none", scenario |-> SCENARIOS[name]]
    ELSE [error |-> "KeyError"]

\* the mapping of get_data from lookup key to loader: the keys of the
\* population, of the wasting and stunting risks and of wasting treatment
\* (the keys of the causes are registered the same way); the keys are the
\* strings of data_keys, those of STUNTING spelt after those of WASTING
mapping ==
    ("population.location" :> "load_population_location")
    @@ ("population.structure" :> "load_population_structure")
    @@ ("population.age_bins" :> "load_age_bins")
    @@ ("population.demographic_dimensions" :> "load_demographic_dimensions")
    @@ ("population.theoretical_minimum_risk_life_expectancy"
            :> "load_theoretical_minimum_risk_life_expectancy")
    @@ ("cause.all_causes.cause_specific_mortality_rate"
            :> "load_standard_gbd_2019_data_as_gbd_2020_data")
    @@ ("covariate.live_births_by_sex.estimate" :> "load_standard_data")
    @@ ("risk_factor.child_wasting.distribution" :> "load_metadata")
    @@ ("alternative_risk_factor.child_wasting.distribution" :> "load_metadata")
    @@ ("risk_factor.child_wasting.categories" :> "load_metadata")
    @@ ("risk_factor.child_wasting.exposure" :> "load_gbd_2020_exposure")
    @@ ("risk_factor.child_wasting.relative_risk" :> "load_gbd_2020_rr")
    @@ ("risk_factor.child_wasting.population_attributable_fraction" :> "load_paf")
    @@ ("risk_factor.child_stunting.exposure" :> "load_gbd_2020_exposure")
    @@ ("risk_factor.child_stunting.relative_risk" :> "load_gbd_2020_rr")
    @@ ("risk_factor.child_stunting.population_attributable_fraction" :> "load_paf")
    @@ ("risk_factor.wasting_treatment.distribution" :> "load_wasting_treatment_distribution")
    @@ ("risk_factor.wasting_treatment.categories" :> "load_wasting_treatment_categories")
    @@ ("risk_factor.wasting_treatment.exposure" :> "load_wasting_treatment_exposure")
    @@ ("risk_factor.wasting_treatment.relative_risk" :> "load_wasting_treatment_rr")
    @@ ("risk_factor.wasting_treatment.population_attributable_fraction" :> "load_paf")

\* lookup keys no loader is registered for
UnregisteredKeys ==
    {"risk_factor.child_wasting.exposure_parameters", "population.locaton", ""}

LookupKeys == DOMAIN mapping \cup UnregisteredKeys

\* the risk whose exposure and relative risk load_paf reads
paf_risk ==
    ("risk_factor.child_wasting.population_attributable_fraction" :> "risk_factor.child_wasting")
    @@ ("risk_factor.child_stunting.population_attributable_fraction"
            :> "risk_factor.child_stunting")
    @@ ("risk_factor.wasting_treatment.population_attributable_fraction"
            :> "risk_factor.wasting_treatment")

\* the loaders that look at their key, and the loaders that ignore it
KeyCheckingLoaders ==
    {"load_population_location", "load_demographic_dimensions", "load_paf",
     "load_wasting_treatment_distribution", "load_wasting_treatment_categories",
     "load_wasting_treatment_exposure", "load_wasting_treatment_rr"}

KeyIgnoringLoaders ==
    {"load_population_structure", "load_age_bins",
     "load_theoretical_minimum_risk_life_expectancy"}

\* the test on key at the head of a loader
key_check(loader, key) ==
    CASE loader = "load_population_location" -> ~(key # "population.location")
      [] loader = "load_demographic_dimensions" -> key = "population.demographic_dimensions"
      [] loader = "load_paf" ->
            key \in {"risk_factor.child_wasting.population_attributable_fraction",
                     "risk_factor.child_stunting.population_attributable_fraction",
                     "risk_factor.wasting_treatment.population_attributable_fraction"}
      [] loader = "load_wasting_treatment_distribution" ->
            key = "risk_factor.wasting_treatment.distribution"
      [] loader = "load_wasting_treatment_categories" ->
            key = "risk_factor.wasting_treatment.categories"
      [] loader = "load_wasting_treatment_exposure" ->
            key = "risk_factor.wasting_treatment.exposure"
      [] loader = "load_wasting_treatment_rr" ->
            key = "risk_factor.wasting_treatment.relative_risk"
      [] OTHER -> TRUE

\* what a call returns: the data a loader made for a key, or the error raised
Data(loader, key) == [status |-> "data", loader |-> loader, key |-> key]

Raised(error, key) == [status |-> error, loader |-> "", key |-> key]

\* the first error of the nested loads, or the data
after_loads(nested, data) ==
    IF \E k \in 1..Len(nested) : nested[k].status # "data"
    THEN nested[CHOOSE k \in 1..Len(nested) :
                    /\ nested[k].status # "data"
                    /\ \A j \in 1..(k - 1) : nested[j].status = "data"]
    ELSE data

RECURSIVE get_data(_)
RECURSIVE load(_, _)

\* a loader called with a key: the key check, the nested get_data calls of
\* load_paf and of the wasting-treatment loaders, then the data
load(loader, key) ==
    IF ~key_check(loader, key) THEN Raised("ValueError", key)
    ELSE IF loader = "load_paf"
    THEN after_loads(<<get_data(paf_risk[key] \o ".exposure"),
                       get_data(paf_risk[key] \o ".relative_risk")>>, Data(loader, key))
    ELSE IF loader \in {"load_wasting_treatment_exposure", "load_wasting_treatment_rr"}
    THEN after_loads(<<get_data("population.demographic_dimensions")>>, Data(loader, key))
    ELSE Data(loader, key)

\* get_data: mapping[lookup_key](lookup_key, location)
get_data(lookup_key) ==
    IF lookup_key \in DOMAIN mapping
    THEN load(mapping[lookup_key], lookup_key)
    ELSE Raised("KeyError", lookup_key)

NoCall == [fn |-> "none", key |-> "", result |-> Raised("none", "")]

CfgInit ==
    /\ cfg \in [scenario_name : ConfiguredScenarios,
                scenario : {[c \in InterventionComponents |-> [error |-> "unset"]]},
                error : {"none"}, steps : {0}, call : {NoCall}]
    /\ cov = Idle /\ rate = Idle /\ sim = Idle /\ pop = Idle
    /\ strat = Idle /\ ini = Idle
    /\ art = Idle /\ calc = Idle

\* setup of an intervention component: the scenario lookup; an error ends
\* the setup of the run
Intervention_setup(component) ==
    /\ cfg.error = "none"
    /\ cfg.steps = 0
    /\ cfg.scenario[component].error = "unset"
    /\ LET found == scenario_lookup(cfg.scenario_name)
       IN cfg' = [cfg EXCEPT !.scenario[component] = found, !.error = found.error]
    /\ UNCHANGED <<cov, rate, sim, pop, strat, ini, art, calc>>

SQLNSIntervention_setup == Intervention_setup(SQLNS_INTERVENTION)

WastingTreatmentIntervention_setup == Intervention_setup(WASTING_TREATMENT_INTERVENTION)

\* a time step of the run: the setup of every component has returned
CfgTimeStep ==
    /\ cfg.error = "none"
    /\ \A c \in InterventionComponents : cfg.scenario[c].error = "none"
    /\ cfg.steps < MaxSteps
    /\ cfg' = [cfg EXCEPT !.steps = cfg.steps + 1]
    /\ UNCHANGED <<cov, rate, sim, pop, strat, ini, art, calc>>

\* the artifact builder asks get_data for a key
Call_get_data ==
    /\ \E key \in LookupKeys :
         cfg' = [cfg EXCEPT !.call = [fn |-> "get_data", key |-> key, result |-> get_data(key)]]
    /\ UNCHANGED <<cov, rate, sim, pop, strat, ini, art, calc>>

\* a loader called by name with any key
Call_loader ==
    /\ \E loader \in KeyCheckingLoaders \cup KeyIgnoringLoaders, key \in LookupKeys :
         cfg' = [cfg EXCEPT !.call = [fn |-> loader, key |-> key, result |-> load(loader, key)]]
    /\ UNCHANGED <<cov, rate, sim, pop, strat, ini, art, calc>>

CfgNext ==
    \/ SQLNSIntervention_setup
    \/ WastingTreatmentIntervention_setup
    \/ CfgTimeStep
    \/ Call_get_data
    \/ Call_loader

SpecCfg == CfgInit /\ [][CfgNext]_vars

\* C10: with a scenario name that is not a key of SCENARIOS the first setup
\* of an intervention component raises, no component holds a scenario and
\* no time step runs; get_data with a key that has no loader raises
\* KeyError, a key-checking loader returns data only for a key it is
\* registered for and raises ValueError for any other (load_paf for every
\* key but the three PAF keys); data returned is the data of the key asked.
C10_ConfigErrorsFatal ==
    /\ cfg.scenario_name \notin {"baseline", "wasting_treatment", "sqlns"} =>
          /\ cfg.steps = 0
          /\ \A c \in InterventionComponents : cfg.scenario[c].error \in {"unset", "KeyError"}
          /\ (\E c \in InterventionComponents : cfg.scenario[c].error # "unset")
                => cfg.error = "KeyError"
    /\ (cfg.call.fn = "get_data" /\ cfg.call.key \notin DOMAIN mapping)
          => cfg.call.result.status = "KeyError"
    /\ cfg.call.fn \in KeyCheckingLoaders =>
          IF cfg.call.key \in DOMAIN mapping /\ mapping[cfg.call.key] = cfg.call.fn
          THEN cfg.call.result.status = "data"
          ELSE cfg.call.result.status = "ValueError"
    /\ (cfg.call.fn = "load_paf" /\ cfg.call.result.status = "data")
          => cfg.call.key \in DOMAIN paf_risk
    /\ cfg.call.result.status = "data" =>
          /\ cfg.call.result.key = cfg.call.key
          /\ cfg.call.fn = "get_data" => cfg.call.result.loader = mapping[cfg.call.key]

\* the setup failed on an unknown scenario name, and get_data was then
\* asked for an unregistered key
C10_Witness ==
    /\ cfg.scenario_name \notin DOMAIN SCENARIOS
    /\ cfg.error = "KeyError"
    /\ cfg.steps = 0
    /\ cfg.call.fn = "get_data"
    /\ cfg.call.key \in UnregisteredKeys
    /\ cfg.call.result.status = "KeyError"

----------------------------------------------------------------------------
(* Specification SpecExposure: load_gbd_2020_exposure and process_exposure *)
(* on the raw category rows of a risk                                      *)

\* a proportion as an exact fraction
Frac(n, d) == [n |-> n, d |-> d]

\* the sum of a sequence of fractions
RECURSIVE FracSum(_)
FracSum(fs) ==
    IF fs = << >> THEN Frac(0, 1)
    ELSE LET a == Head(fs)
             b == FracSum(Tail(fs))
         IN Frac(a.n * b.d + b.n * a.d, a.d * b.d)

\* the strata of the exposure table in index order (age_end in age units):
\* early neonatal, late neonatal, post neonatal
ExposureStrata == <<56, 224, START_AGE>>

WASTING_EXPOSURE == "risk_factor.child_wasting.exposure"
STUNTING_EXPOSURE == "risk_factor.child_stunting.exposure"

\* utility_data.get_tmrel_category of the two risks
tmrel_cat == "cat4"

\* the raw rows of a stratum, in tenths: a category without a row is absent
\* from the domain.  GBD proportions: the rows present are not all zero.
RawRows(c1, c2, c3, c4) ==
    [c \in {x \in Categories : (x = "cat1" /\ c1 >= 0) \/ (x = "cat2" /\ c2 >= 0)
                               \/ (x = "cat3" /\ c3 >= 0) \/ (x = "cat4" /\ c4 >= 0)} |->
        IF c = "cat1" THEN c1 ELSE IF c = "cat2" THEN c2 ELSE IF c = "cat3" THEN c3 ELSE c4]

RawStrata ==
    {RawRows(1, 1, 2, 6), RawRows(1, 1, 2, 5), RawRows(-1, -1, -1, -1),
     RawRows(1, 1, 2, -1), RawRows(-1, -1, -1, 6), RawRows(0, 0, 3, 7),
     RawRows(-1, 2, 2, 5)}

\* normalize_gbd_2020 / normalize_age_and_years of the rows of one category:
\* a stratum without a row gets fill_value
normalize_fill(raw, category, fill_value) ==
    [k \in DOMAIN raw |-> IF category \in DOMAIN raw[k] THEN raw[k][category] ELSE fill_value]

\* exposed categories filled with 0, the TMREL category with 1, concatenated
filled(raw) ==
    [k \in DOMAIN raw |->
        [c \in Categories |->
            normalize_fill(raw, c, IF c = tmrel_cat THEN 1 ELSE 0)[k]]]

\* data.groupby(cols).sum(), then data.divide(sums)
normalize_to_sum(data) ==
    [k \in DOMAIN data |->
        LET sums == data[k]["cat1"] + data[k]["cat2"] + data[k]["cat3"] + data[k]["cat4"]
        IN [c \in Categories |-> Frac(data[k][c], sums)]]

\* an override that zeroes the neonatal strata and sets no category to 1
remove_neonatal_exposure_zero_only(data) ==
    [k \in DOMAIN data |-> IF k <= 2 THEN [c \in Categories |-> Frac(0, 1)] ELSE data[k]]

\* the stunting override: the strata of the first two age_end values get 0.0
\* in every category, then 1.0 in cat4
remove_neonatal_exposure(data) ==
    [k \in DOMAIN data |->
        IF k <= 2
        THEN [c \in Categories |-> IF c = "cat4" THEN Frac(1, 1) ELSE Frac(0, 1)]
        ELSE data[k]]

\* load_gbd_2020_exposure: fill, normalize, and the override for stunting
gbd_2020_exposure(key, raw) ==
    LET data == normalize_to_sum(filled(raw))
    IN IF key = STUNTING_EXPOSURE THEN remove_neonatal_exposure(data) ELSE data

\* process_exposure for a polytomous risk: fill and normalize
process_exposure(raw) == normalize_to_sum(filled(raw))

NoTable == << >>

ExposureInit ==
    /\ art \in [key : {WASTING_EXPOSURE, STUNTING_EXPOSURE},
                raw : [DOMAIN ExposureStrata -> RawStrata],
                by : {"none"}, data : {NoTable}]
    /\ cov = Idle /\ rate = Idle /\ sim = Idle /\ pop = Idle
    /\ strat = Idle /\ ini = Idle /\ cfg = Idle /\ calc = Idle

load_gbd_2020_exposure ==
    /\ art.by = "none"
    /\ art' = [art EXCEPT !.by = "load_gbd_2020_exposure",
                          !.data = gbd_2020_exposure(art.key, art.raw)]
    /\ UNCHANGED <<cov, rate, sim, pop, strat, ini, cfg, calc>>

utilities_process_exposure ==
    /\ art.by = "none"
    /\ art' = [art EXCEPT !.by = "process_exposure", !.data = process_exposure(art.raw)]
    /\ UNCHANGED <<cov, rate, sim, pop, strat, ini, cfg, calc>>

ExposureNext == load_gbd_2020_exposure \/ utilities_process_exposure

SpecExposure == ExposureInit /\ [][ExposureNext]_vars

\* the sum of the four categories of a stratum of the loaded table
category_sum(k) ==
    FracSum(<<art.data[k]["cat1"], art.data[k]["cat2"], art.data[k]["cat3"], art.data[k]["cat4"]>>)

----------------------------------------------------------------------------
(* Specification SpecConvert: the two unit conversions applied in turn to  *)
(* a stratified table of annual rates                                      *)

\* annual rates of a stratum: none, 6.7, 27.5 and 100 per year, a rate below
\* the resolution of 1 - exp(-x) next to 1, and a rate of 20000 per year
ConvertRates == {Num(0), Num(67000), Num(275000), Num(1000000), Num(1), Num(20000 * Scale)}

\* the strata of the table, in index order
ConvertStrata == 1..3

ConvertInit ==
    /\ calc \in [fn : {"convert"}, stage : {"annual_rate"},
                 rate : [ConvertStrata -> ConvertRates],
                 probability : {<< >>}, back : {<< >>}]
    /\ cov = Idle /\ rate = Idle /\ sim = Idle /\ pop = Idle
    /\ strat = Idle /\ ini = Idle /\ cfg = Idle /\ art = Idle

\* _convert_annual_rate_to_daily_probability on the table, element-wise
Convert_annual_rate_to_daily_probability ==
    /\ calc.stage = "annual_rate"
    /\ calc' = [calc EXCEPT
                  !.stage = "daily_probability",
                  !.probability = [k \in DOMAIN calc.rate |->
                                      convert_annual_rate_to_daily_probability(calc.rate[k])]]
    /\ UNCHANGED <<cov, rate, sim, pop, strat, ini, cfg, art>>

\* _convert_daily_probability_to_annual_rate on the result, element-wise
Convert_daily_probability_to_annual_rate ==
    /\ calc.stage = "daily_probability"
    /\ calc' = [calc EXCEPT
                  !.stage = "back",
                  !.back = [k \in DOMAIN calc.probability |->
                               convert_daily_probability_to_annual_rate(calc.probability[k])]]
    /\ UNCHANGED <<cov, rate, sim, pop, strat, ini, cfg, art>>

ConvertNext ==
    \/ Convert_annual_rate_to_daily_probability
    \/ Convert_daily_probability_to_annual_rate

SpecConvert == ConvertInit /\ [][ConvertNext]_vars

\* the distance of two numbers
Dist(a, b) == IF a >= b THEN a - b ELSE b - a

\* C12 (as stated): for every annual rate r >= 0 of the table the daily
\* probability is a number in [0, 1), the rate converted back is r within
\* the relative tolerance (one percent on this grid), and both results have
\* the strata of the input in the same order.
C12_RoundTrip ==
    /\ calc.stage \in {"daily_probability", "back"} =>
          /\ DOMAIN calc.probability = DOMAIN calc.rate
          /\ \A k \in DOMAIN calc.rate :
                /\ IsNum(calc.probability[k])
                /\ 0 <= calc.probability[k].v /\ calc.probability[k].v < Scale
    /\ calc.stage = "back" =>
          /\ DOMAIN calc.back = DOMAIN calc.rate
          /\ \A k \in DOMAIN calc.rate :
                /\ IsNum(calc.back[k])
                /\ Dist(calc.back[k].v, calc.rate[k].v) * 100 <= calc.rate[k].v

----------------------------------------------------------------------------
(* Claims on the solvers, checked under SpecRates                          *)

\* the annual rate the severe -> mild edge gets for the stratum of the call
t1_annual ==
    convert_daily_probability_to_annual_rate(
        get_daily_sam_treated_remission_probability(rate.stratum, rate.tx_coverage, rate.sam_tx_efficacy))

\* the annual mortality rate of the severe category
d1_annual == convert_daily_probability_to_annual_rate(rate.mortality_probs["cat1"])

\* C13: for a stratum with age_end > START_AGE and a SAM mortality
\* probability below 1, the annual severe -> moderate rate plus the annual
\* treated-remission rate of the severe -> mild edge plus the annual SAM
\* mortality rate is sam_k (within one percent of sam_k on this grid).
C13_SamTotalExitRate ==
    (/\ rate.solver = "r2"
     /\ rate.stratum.age_end > START_AGE
     /\ rate.mortality_probs["cat1"].v < Scale) =>
        /\ IsNum(rate.annual) /\ IsNum(t1_annual) /\ IsNum(d1_annual)
        /\ Dist(rate.annual.v + t1_annual.v + d1_annual.v, rate.sam_k.v) * 100 <= rate.sam_k.v

\* r2 loaded for a stratum above the start age with treatment coverage and a
\* SAM mortality that are not 0
C13_Witness ==
    /\ rate.solver = "r2"
    /\ rate.stratum.age_end > START_AGE
    /\ rate.tx_coverage = Num(4880)
    /\ rate.mortality_probs["cat1"] = Num(100)
    /\ t1_annual.v > 0 /\ d1_annual.v > 0
    /\ rate.annual.v > 0

\* the inputs of the call are in the ranges the solvers are written for:
\* exposures in [0,1] summing to 1, mortality probabilities in [0,1),
\* coverage and efficacy in [0,1], sam_k > 0
Admissible ==
    /\ \A c \in Categories : rate.exposures[c].v >= 0 /\ rate.exposures[c].v <= Scale
    /\ rate.exposures["cat1"].v + rate.exposures["cat2"].v + rate.exposures["cat3"].v + rate.exposures["cat4"].v = Scale
    /\ \A c \in Categories : rate.mortality_probs[c].v >= 0 /\ rate.mortality_probs[c].v < Scale
    /\ rate.tx_coverage.v >= 0 /\ rate.tx_coverage.v <= Scale
    /\ rate.sam_tx_efficacy.v >= 0 /\ rate.sam_tx_efficacy.v <= Scale
    /\ rate.mam_tx_efficacy.v >= 0 /\ rate.mam_tx_efficacy.v <= Scale
    /\ rate.sam_k.v > 0

Negative(x) == IsNum(x) /\ x.v < 0

\* C14: for admissible inputs no solver returns a negative daily probability
\* or a negative annual rate.
C14_RatesNonNegative ==
    (rate.solver # Idle /\ Admissible) => ~Negative(rate.daily) /\ ~Negative(rate.annual)

\* an adjusted exposure that an incidence solver divides by is 0
ZeroDenominator ==
    LET adj_exposures == adjust_exposure(rate.exposures, rate.adjustment)
    IN \/ rate.solver = "i3" /\ adj_exposures["cat4"] = Zero
       \/ rate.solver = "i2" /\ adj_exposures["cat3"] = Zero
       \/ rate.solver = "i1" /\ adj_exposures["cat2"] = Zero

\* C15: an incidence solver whose adjusted-exposure denominator is 0, or
\* whose daily probability is 1 or more, still hands over a finite daily
\* probability and a finite annual rate.
C15_DegenerateRecovered ==
    (rate.solver \in {"i1", "i2", "i3"} /\ (ZeroDenominator \/ (IsNum(rate.daily) /\ rate.daily.v >= Scale))) =>
        IsNum(rate.daily) /\ IsNum(rate.annual)

----------------------------------------------------------------------------
(* LRI prevalence and excess mortality rate                                *)

\* durations in tenths of a day
EARLY_NEONATAL_CAUSE_DURATION == 35

LRI_DURATION == 100

\* the age_start of the strata of the artifact tables, in age units
LriStrata == <<0, 56, 224>>

\* x * tenths-of-a-day / 365
FMulDaysPerYear(a, tenths) == IF IsNum(a) THEN Num((a.v * tenths) \div 3650) ELSE a

\* prevalence from incidence: the early neonatal stratum by its own
\* duration, every other stratum by LRI_DURATION, then the two parts
\* concatenated
lri_prevalence(incidence_rate) ==
    LET early == {k \in DOMAIN incidence_rate : LriStrata[k] = 0}
        other == {k \in DOMAIN incidence_rate : LriStrata[k] # 0}
        early_neonatal_prevalence ==
            [k \in early |-> FMulDaysPerYear(incidence_rate[k], EARLY_NEONATAL_CAUSE_DURATION)]
        all_other_prevalence ==
            [k \in other |-> FMulDaysPerYear(incidence_rate[k], LRI_DURATION)]
    IN early_neonatal_prevalence @@ all_other_prevalence

\* DataFrame.fillna(0)
fillna(data) == [k \in DOMAIN data |-> IF IsNaN(data[k]) THEN Zero ELSE data[k]]

\* DataFrame.replace([inf, -inf], 0)
replace_inf(data) == [k \in DOMAIN data |-> IF IsInf(data[k]) THEN Zero ELSE data[k]]

\* csmr / prevalence, aligned on the index
divide(csmr, prevalence) ==
    [k \in DOMAIN csmr \cup DOMAIN prevalence |->
        IF k \in DOMAIN csmr /\ k \in DOMAIN prevalence THEN FDiv(csmr[k], prevalence[k]) ELSE NaNv]

\* the excess mortality rate with missing values filled and infinities left
lri_excess_mortality_rate_fillna_only(csmr, incidence_rate) ==
    fillna(divide(csmr, lri_prevalence(incidence_rate)))

lri_excess_mortality_rate(csmr, incidence_rate) ==
    replace_inf(fillna(divide(csmr, lri_prevalence(incidence_rate))))

LriIncidenceSet == {Num(0), Num(5000), Num(20000)}

LriCsmrSet == {Num(0), Num(10)}

LriInit ==
    /\ art \in [incidence_rate : [DOMAIN LriStrata -> LriIncidenceSet],
                csmr : [DOMAIN LriStrata -> LriCsmrSet],
                prevalence : {NoTable}, emr : {NoTable}]
    /\ cov = Idle /\ rate = Idle /\ sim = Idle /\ pop = Idle
    /\ strat = Idle /\ ini = Idle /\ cfg = Idle /\ calc = Idle

load_lri_prevalence ==
    /\ art.prevalence = NoTable
    /\ art' = [art EXCEPT !.prevalence = lri_prevalence(art.incidence_rate)]
    /\ UNCHANGED <<cov, rate, sim, pop, strat, ini, cfg, calc>>

load_lri_excess_mortality_rate ==
    /\ art.emr = NoTable
    /\ art' = [art EXCEPT !.emr = lri_excess_mortality_rate(art.csmr, art.incidence_rate)]
    /\ UNCHANGED <<cov, rate, sim, pop, strat, ini, cfg, calc>>

LriNext == load_lri_prevalence \/ load_lri_excess_mortality_rate

SpecLri == LriInit /\ [][LriNext]_vars

\* C16: the LRI excess mortality rate has one value for every stratum of the
\* inputs: the quotient CSMR / prevalence where the prevalence is not 0 and
\* exactly 0 where it is 0, never NaN and never an infinity.
C16_LriEmrDefined ==
    art.emr # NoTable =>
        /\ DOMAIN art.emr = DOMAIN art.csmr
        /\ \A k \in DOMAIN art.emr :
              LET prevalence == lri_prevalence(art.incidence_rate)[k]
              IN /\ IsNum(art.emr[k])
                 /\ prevalence # Zero => art.emr[k] = Num((art.csmr[k].v * Scale) \div prevalence.v)
                 /\ prevalence = Zero => art.emr[k] = Zero

\* a loaded table with a stratum of each kind: 0/0, x/0 and x/y
C16_Witness ==
    /\ art.emr # NoTable
    /\ \E i, j, k \in DOMAIN art.emr :
          /\ art.incidence_rate[i] = Zero /\ art.csmr[i] = Zero
          /\ art.incidence_rate[j] = Zero /\ art.csmr[j] # Zero
          /\ art.incidence_rate[k] # Zero /\ art.csmr[k] # Zero /\ art.emr[k].v > 0

----------------------------------------------------------------------------
(* The daily mortality probability of each wasting category                *)

DIARRHEA == "diarrheal_diseases"

MEASLES == "measles"

LRI == "lower_respiratory_infections"

PEM == "protein_energy_malnutrition"

causes == {DIARRHEA, MEASLES, LRI, PEM}

\* durations in tenths of a day
DIARRHEA_DURATION == 100

MEASLES_DURATION == 100

\* duration of a cause in years, for a stratum that starts at age_start
duration_c(c, age_start) ==
    LET tenths == IF age_start = 0 THEN EARLY_NEONATAL_CAUSE_DURATION
                  ELSE IF c = DIARRHEA THEN DIARRHEA_DURATION
                  ELSE IF c = MEASLES THEN MEASLES_DURATION
                  ELSE LRI_DURATION
    IN FDivYear(Num(tenths * (Scale \div 10)))

\* the prior of PEM prevalence by wasting category
prevalence_pem_i == Table(Scale, Scale, 0, 0)

\* groupby(...).sum() over a set of causes: missing values are skipped
RECURSIVE sum_over(_, _)
sum_over(cs, term) ==
    IF cs = {} THEN Zero
    ELSE LET c == CHOOSE x \in cs : TRUE
             rest == sum_over(cs \ {c}, term)
         IN IF IsNaN(term[c]) THEN rest ELSE FAdd(term[c], rest)

\* mr_i = acmr + sum_c(emr_c * prevalence_ci - csmr_c) for category i
mr_i(t, i) ==
    LET incidence_ci == [c \in causes \ {PEM} |->
                            FMul(FMul(t.rr_ci[i], t.incidence_c[c]), FSub(One, t.paf_c))]
        prevalence_ci == [c \in causes |->
                            IF c = PEM THEN prevalence_pem_i[i]
                            ELSE FMul(incidence_ci[c], duration_c(c, t.age_start))]
        excess == [c \in causes |-> FSub(FMul(prevalence_ci[c], t.emr_c[c]), t.csmr_c[c])]
    IN FAdd(t.acmr, sum_over(causes, excess))

\* the annual mortality rates returned without the conversion
daily_mortality_probabilities_unconverted(t) == [i \in Categories |-> mr_i(t, i)]

daily_mortality_probabilities(t) ==
    [i \in Categories |-> convert_annual_rate_to_daily_probability(mr_i(t, i))]

acmr_adjustment(t) == convert_annual_rate_to_daily_probability(t.acmr)

ZeroByCause == [c \in causes |-> Zero]

MortalityEmrSet == [causes -> {Zero, Num(2 * Scale)}]

MortalityCsmrSet == {ZeroByCause, [c \in causes |-> Num(100)], [ZeroByCause EXCEPT ![PEM] = Num(100)]}

MortalityIncidenceSet == {[c \in causes \ {PEM} |-> Zero], [c \in causes \ {PEM} |-> Num(Scale)]}

MortalityInit ==
    /\ art \in [age_start : {0, COVERAGE_START_AGE},
                acmr : {Zero, Num(500)},
                emr_c : MortalityEmrSet,
                csmr_c : MortalityCsmrSet,
                incidence_c : MortalityIncidenceSet,
                paf_c : {Num(5000)},
                rr_ci : {Table(3 * Scale, 2 * Scale, 15000, Scale)},
                adjustment : {NoTable}, mortality : {NoTable}]
    /\ cov = Idle /\ rate = Idle /\ sim = Idle /\ pop = Idle
    /\ strat = Idle /\ ini = Idle /\ cfg = Idle /\ calc = Idle

load_acmr_adjustment ==
    /\ art.adjustment = NoTable
    /\ art' = [art EXCEPT !.adjustment = acmr_adjustment(art)]
    /\ UNCHANGED <<cov, rate, sim, pop, strat, ini, cfg, calc>>

load_daily_mortality_probabilities ==
    /\ art.mortality = NoTable
    /\ art' = [art EXCEPT !.mortality = daily_mortality_probabilities(art)]
    /\ UNCHANGED <<cov, rate, sim, pop, strat, ini, cfg, calc>>

MortalityNext == load_acmr_adjustment \/ load_daily_mortality_probabilities

SpecMortality == MortalityInit /\ [][MortalityNext]_vars

\* every EMR, CSMR and incidence table of the causes is 0 in the stratum
ZeroCase ==
    /\ \A c \in causes : art.emr_c[c] = Zero /\ art.csmr_c[c] = Zero
    /\ \A c \in causes \ {PEM} : art.incidence_c[c] = Zero

\* C17: when every EMR, CSMR and incidence value of the causes is 0 in a
\* stratum, the daily mortality probability of a wasting category whose PEM
\* prevalence prior is 0 is exactly the value load_acmr_adjustment returns
\* for the stratum, the daily probability of the all-cause mortality rate.
C17_MortalityZeroCase ==
    (art.mortality # NoTable /\ art.adjustment # NoTable /\ ZeroCase) =>
        \A i \in Categories :
            prevalence_pem_i[i] = Zero =>
                /\ art.mortality[i] = art.adjustment
                /\ art.mortality[i] = convert_annual_rate_to_daily_probability(art.acmr)

\* both tables loaded in the zero case with an all-cause mortality above 0
C17_Witness ==
    /\ art.mortality # NoTable /\ art.adjustment # NoTable /\ ZeroCase
    /\ art.acmr = Num(500)
    /\ art.mortality["cat4"] = art.adjustment /\ art.adjustment.v > 0

----------------------------------------------------------------------------
(* Birth prevalence of the wasting states                                  *)

Sexes == {"Female", "Male"}

Years == {[year_start |-> 2019, year_end |-> 2020], [year_start |-> 2020, year_end |-> 2021]}

\* the rows of the artifact index: sex, age_start, age_end, year_start, year_end
ARTIFACT_INDEX ==
    {[sex |-> x, age_start |-> b.age_start, age_end |-> b.age_end,
      year_start |-> y.year_start, year_end |-> y.year_end] : x \in Sexes, b \in AgeBins, y \in Years}

BirthTables == {Table(500, 1000, 2500, 6000), Table(1000, 2000, 3000, 4000)}

\* an exposure table: the table of a bin for females, the other one for males
child_wasting_exposures(profile) ==
    [r \in ARTIFACT_INDEX |->
        IF r.sex = "Female" THEN profile[[age_start |-> r.age_start, age_end |-> r.age_end]]
        ELSE CHOOSE t \in BirthTables : t # profile[[age_start |-> r.age_start, age_end |-> r.age_end]]]

\* the rows of the category whose age_end is START_AGE, the age levels
\* dropped and the index reset
child_wasting_birth_prevalence(exposures, wasting_category) ==
    LET exposure == [r \in DOMAIN exposures |-> exposures[r][wasting_category]]
        rows == {r \in DOMAIN exposure : r.age_end = START_AGE}
    IN [r \in rows |-> [sex |-> r.sex, year_start |-> r.year_start, year_end |-> r.year_end,
                        value |-> exposure[r]]]

BirthInit ==
    /\ art \in [exposures : {child_wasting_exposures(p) : p \in [AgeBins -> BirthTables]},
                by : {"none"}, data : {NoTable}]
    /\ cov = Idle /\ rate = Idle /\ sim = Idle /\ pop = Idle
    /\ strat = Idle /\ ini = Idle /\ cfg = Idle /\ calc = Idle

load_child_wasting_birth_prevalence(wasting_category) ==
    /\ art.by = "none"
    /\ art' = [art EXCEPT !.by = wasting_category,
                          !.data = child_wasting_birth_prevalence(art.exposures, wasting_category)]
    /\ UNCHANGED <<cov, rate, sim, pop, strat, ini, cfg, calc>>

load_mild_wasting_birth_prevalence == load_child_wasting_birth_prevalence("cat3")

load_mam_birth_prevalence == load_child_wasting_birth_prevalence("cat2")

load_sam_birth_prevalence == load_child_wasting_birth_prevalence("cat1")

BirthNext ==
    \/ load_mild_wasting_birth_prevalence
    \/ load_mam_birth_prevalence
    \/ load_sam_birth_prevalence

SpecBirth == BirthInit /\ [][BirthNext]_vars

\* C18: a birth prevalence table has exactly one row for every sex and year,
\* without age columns, and its value is the exposure of the category in the
\* stratum whose age bin starts at START_AGE.
C18_BirthPrevalenceAtStartAge ==
    art.by # "none" =>
        \A x \in Sexes, y \in Years :
            LET got == {r \in DOMAIN art.data :
                           /\ art.data[r].sex = x
                           /\ art.data[r].year_start = y.year_start
                           /\ art.data[r].year_end = y.year_end}
            IN /\ Cardinality(got) = 1
               /\ \A r \in got :
                     /\ DOMAIN art.data[r] = {"sex", "year_start", "year_end", "value"}
                     /\ \E e \in DOMAIN art.exposures :
                           /\ e.sex = x /\ e.year_start = y.year_start /\ e.year_end = y.year_end
                           /\ e.age_start = START_AGE
                           /\ art.data[r].value = art.exposures[e][art.by]

----------------------------------------------------------------------------
(* The three value modifiers of WastingTreatment on one individual         *)

ModifierAges == {COVERAGE_START_AGE - AgeUnitsPerDay, COVERAGE_START_AGE, 800, START_AGE}

ModifierTreatmentPropensities == {100, 600}

\* below both efficacy levels, between the SAM and the MAM level, above both
ModifierEfficacyPropensities == {100, 710, 900}

ModifierTargets == {Zero, Num(50)}

ModifierInit ==
    /\ calc \in [levels : {RunLevels}, age : ModifierAges,
                 treatment_propensity : ModifierTreatmentPropensities,
                 efficacy_propensity : ModifierEfficacyPropensities,
                 target : ModifierTargets,
                 modifier : {"none"}, coverage : {NAN}, value : {NaNv}]
    /\ cov = Idle /\ rate = Idle /\ sim = Idle /\ pop = Idle
    /\ strat = Idle /\ ini = Idle /\ cfg = Idle /\ art = Idle

WastingTreatment_apply_sam_treatment_modifier ==
    /\ calc.modifier = "none"
    /\ LET coverage == get_sam_treatment_coverage_source(
                           calc.levels, calc.age, calc.treatment_propensity, calc.efficacy_propensity)
       IN calc' = [calc EXCEPT !.modifier = "apply_sam_treatment_modifier",
                               !.coverage = coverage,
                               !.value = apply_sam_treatment_modifier(calc.age, coverage, calc.target)]
    /\ UNCHANGED <<cov, rate, sim, pop, strat, ini, cfg, art>>

WastingTreatment_apply_sam_non_treatment_modifier ==
    /\ calc.modifier = "none"
    /\ LET coverage == get_sam_treatment_coverage_source(
                           calc.levels, calc.age, calc.treatment_propensity, calc.efficacy_propensity)
       IN calc' = [calc EXCEPT !.modifier = "apply_sam_non_treatment_modifier",
                               !.coverage = coverage,
                               !.value = apply_sam_non_treatment_modifier(coverage, calc.target)]
    /\ UNCHANGED <<cov, rate, sim, pop, strat, ini, cfg, art>>

WastingTreatment_apply_mam_treatment_modifier ==
    /\ calc.modifier = "none"
    /\ LET coverage == get_sam_treatment_coverage_source(
                           calc.levels, calc.age, calc.treatment_propensity, calc.efficacy_propensity)
       IN calc' = [calc EXCEPT !.modifier = "apply_mam_treatment_modifier",
                               !.coverage = coverage,
                               !.value = apply_mam_treatment_modifier(calc.age, coverage, calc.target)]
    /\ UNCHANGED <<cov, rate, sim, pop, strat, ini, cfg, art>>

ModifierNext ==
    \/ WastingTreatment_apply_sam_treatment_modifier
    \/ WastingTreatment_apply_sam_non_treatment_modifier
    \/ WastingTreatment_apply_mam_treatment_modifier

SpecModifier == ModifierInit /\ [][ModifierNext]_vars

\* C19: the modifier of the moderate -> mild rate classifies the individual
\* with the MAM coverage and efficacy levels and the two modifiers of the
\* severe state with the SAM levels.
C19_ModifierUsesOwnLevels ==
    LET sam == get_sam_treatment_coverage_source(
                   calc.levels, calc.age, calc.treatment_propensity, calc.efficacy_propensity)
        mam == get_mam_treatment_coverage_source(
                   calc.levels, calc.age, calc.treatment_propensity, calc.efficacy_propensity)
    IN /\ calc.modifier \in {"apply_sam_treatment_modifier", "apply_sam_non_treatment_modifier"} =>
              calc.coverage = sam
       /\ calc.modifier = "apply_mam_treatment_modifier" =>
              /\ calc.coverage = mam
              /\ calc.value = apply_mam_treatment_modifier(calc.age, mam, calc.target)

----------------------------------------------------------------------------
(* The coverage modifier of SQLNSIntervention on one individual            *)

SqlnsClocks == {SCALE_UP_START_DT - 1, SCALE_UP_START_DT, SCALE_UP_START_DT + 1}

SqlnsAges ==
    {SQ_LNS_COVERAGE_START_AGE - AgeUnitsPerDay, SQ_LNS_COVERAGE_START_AGE,
     SQ_LNS_COVERAGE_START_AGE + AgeUnitsPerDay}

SqlnsPropensities == {SQ_LNS_COVERAGE_RAMP_UP - 1, SQ_LNS_COVERAGE_RAMP_UP, 500}

SqlnsInit ==
    /\ calc \in [scenario : DOMAIN SCENARIOS, clock : SqlnsClocks, age : SqlnsAges,
                 propensity : SqlnsPropensities, target : BOOLEAN,
                 called : {FALSE}, coverage : {FALSE}]
    /\ cov = Idle /\ rate = Idle /\ sim = Idle /\ pop = Idle
    /\ strat = Idle /\ ini = Idle /\ cfg = Idle /\ art = Idle

SQLNSIntervention_coverage_effect ==
    /\ ~calc.called
    /\ calc' = [calc EXCEPT
                  !.called = TRUE,
                  !.coverage = coverage_effect(SCENARIOS[calc.scenario], calc.clock, calc.age,
                                               calc.propensity, calc.target)]
    /\ UNCHANGED <<cov, rate, sim, pop, strat, ini, cfg, art>>

SqlnsNext == SQLNSIntervention_coverage_effect

SpecSqlns == SqlnsInit /\ [][SqlnsNext]_vars

\* C20: without SQ-LNS in the scenario or before SCALE_UP_START_DT the
\* modifier returns the incoming coverage; otherwise it returns the incoming
\* coverage or (age at or above the coverage start age and propensity below
\* the ramp-up coverage).  A covered individual is never returned uncovered.
C20_CoverageOnlyAdded ==
    calc.called =>
        /\ (~SCENARIOS[calc.scenario].has_sqlns \/ calc.clock < SCALE_UP_START_DT) =>
              calc.coverage = calc.target
        /\ (SCENARIOS[calc.scenario].has_sqlns /\ calc.clock >= SCALE_UP_START_DT) =>
              calc.coverage = (calc.target \/ (/\ calc.age >= SQ_LNS_COVERAGE_START_AGE
                                               /\ calc.propensity < SQ_LNS_COVERAGE_RAMP_UP))
        /\ calc.target => calc.coverage

\* the scale-up is on and a covered individual outside the ramp-up stays covered
C20_Witness ==
    /\ calc.called
    /\ SCENARIOS[calc.scenario].has_sqlns /\ calc.clock >= SCALE_UP_START_DT
    /\ calc.target /\ calc.propensity >= SQ_LNS_COVERAGE_RAMP_UP
    /\ calc.coverage

----------------------------------------------------------------------------
(* The exposure modifier of WastingTreatmentIntervention over a run        *)

ALTERNATIVE_TX_COVERAGE == 9000

\* exposure parameters of the wasting-treatment risk: cat1 untreated,
\* cat2 baseline treatment, cat3 alternative treatment
TxExposure(c1, c2, c3) == [cat1 |-> Num(c1), cat2 |-> Num(c2), cat3 |-> Num(c3)]

TxExposureSet == {TxExposure(5120, 4880, 0), TxExposure(Scale, 0, 0), TxExposure(3000, 3000, 4000), TxExposure(1000, 0, 9000)}

\* a modifier that overrides on the scale-up date only
wasting_treatment_coverage_effect_on_start_date(scenario, clock, target) ==
    IF scenario.has_alternative_treatment /\ SCALE_UP_START_DT = clock
    THEN TxExposure(1000, 0, 9000)
    ELSE target

\* WastingTreatmentIntervention.coverage_effect
wasting_treatment_coverage_effect(scenario, clock, target) ==
    IF scenario.has_alternative_treatment /\ SCALE_UP_START_DT <= clock
    THEN [target EXCEPT !["cat1"] = Num(1000), !["cat2"] = Zero, !["cat3"] = Num(9000)]
    ELSE target

\* time steps after the scale-up date that a run takes
TxMaxClock == 2

TxInit ==
    /\ calc \in [scenario : DOMAIN SCENARIOS, clock : {SCALE_UP_START_DT - 2},
                 target : TxExposureSet, evaluated : {FALSE}, value : TxExposureSet]
    /\ calc.value = calc.target
    /\ cov = Idle /\ rate = Idle /\ sim = Idle /\ pop = Idle
    /\ strat = Idle /\ ini = Idle /\ cfg = Idle /\ art = Idle

\* the pipeline is evaluated in the time step: incoming parameters, modifier
WastingTreatmentIntervention_coverage_effect ==
    /\ ~calc.evaluated
    /\ \E target \in TxExposureSet :
          calc' = [calc EXCEPT
                     !.evaluated = TRUE,
                     !.target = target,
                     !.value = wasting_treatment_coverage_effect(
                                   SCENARIOS[calc.scenario], calc.clock, target)]
    /\ UNCHANGED <<cov, rate, sim, pop, strat, ini, cfg, art>>

\* the host moves the clock to the next time step
TxClockStep ==
    /\ calc.evaluated
    /\ calc.clock < SCALE_UP_START_DT + TxMaxClock
    /\ calc' = [calc EXCEPT !.clock = calc.clock + 1, !.evaluated = FALSE]
    /\ UNCHANGED <<cov, rate, sim, pop, strat, ini, cfg, art>>

TxNext == WastingTreatmentIntervention_coverage_effect \/ TxClockStep

SpecTx == TxInit /\ [][TxNext]_vars

\* the override applies: alternative treatment in the scenario, scale-up begun
TxInForce(c) == SCENARIOS[c.scenario].has_alternative_treatment /\ SCALE_UP_START_DT <= c.clock

\* C21: the modifier returns the incoming exposure parameters in the
\* baseline scenario and before SCALE_UP_START_DT; from that date on, in a
\* scenario with alternative treatment, it returns cat1 = 0.1, cat2 = 0,
\* cat3 = ALTERNATIVE_TX_COVERAGE, which sum to 1; once the override applies
\* it applies in every later time step.
C21_OverrideFromScaleUp ==
    /\ [](calc.evaluated =>
            /\ ~TxInForce(calc) => calc.value = calc.target
            /\ TxInForce(calc) =>
                  /\ calc.value = TxExposure(Scale - ALTERNATIVE_TX_COVERAGE, 0, ALTERNATIVE_TX_COVERAGE)
                  /\ calc.value["cat1"].v + calc.value["cat2"].v + calc.value["cat3"].v = Scale)
    /\ [][TxInForce(calc) => TxInForce(calc')]_vars

\* the override returned in a time step after the scale-up date, on
\* incoming parameters that differ from it
C21_Witness ==
    /\ calc.evaluated /\ calc.clock > SCALE_UP_START_DT
    /\ calc.scenario = "wasting_treatment"
    /\ calc.target = TxExposure(5120, 4880, 0)
    /\ calc.value = TxExposure(1000, 0, 9000)

----------------------------------------------------------------------------
(* Claims on the modifiers of the severe state, checked under SpecModifier *)

\* C22: for an individual of age >= COVERAGE_START_AGE (the boundary age
\* included) the modifier of severe -> mild returns 1 / SAM treated recovery
\* time of the age group when effectively covered and 0 when untreated or
\* non responsive, and the modifier of severe -> moderate returns 0 when
\* effectively covered and 1 / SAM untreated recovery time otherwise; for a
\* younger individual both return the incoming rate.
C22_SamExitsExclusive ==
    LET eligible == calc.age >= COVERAGE_START_AGE
        effective == calc.coverage = EFFECTIVELY_COVERED
        unaffected == calc.coverage \in {UNTREATED, NON_RESPONSIVE}
        treated_rate == IF calc.age < SIX_MONTHS THEN Num(PerDay(SAM_TX_RECOVERY_TIME_UNDER_6MO))
                        ELSE Num(PerDay(SAM_TX_RECOVERY_TIME_OVER_6MO))
    IN /\ calc.modifier = "apply_sam_treatment_modifier" =>
              /\ (eligible /\ effective) => calc.value = treated_rate
              /\ (eligible /\ unaffected) => calc.value = Zero
              /\ ~eligible => calc.value = calc.target
       /\ calc.modifier = "apply_sam_non_treatment_modifier" =>
              /\ (eligible /\ effective) => calc.value = Zero
              /\ (eligible /\ unaffected) => calc.value = Num(PerDay(SAM_UX_RECOVERY_TIME))
              /\ ~eligible => calc.value = calc.target

----------------------------------------------------------------------------
(* Claims on the stratifier and the disease observer, checked under SpecRun *)

\* C23: no observer evaluates group() on a cache that was never filled: the
\* caches are filled by the time the observers of a step read them, and the
\* report never finds the cache of its stratifier unset.
C23_GroupNeverOnMissingCache ==
    /\ sim.pc \in {"time_step", "collect_metrics"} =>
          \A o \in Stratifiers : strat.stratification_groups[o] # None
    /\ sim.pc # "failed"

----------------------------------------------------------------------------
(* ResultsStratifier.group on a population that grows                      *)

\* ResultsStratifier.get_all_stratifications: one tuple per wasting category,
\* or the single empty tuple when no level is defined
get_all_stratifications(by_wasting) ==
    IF by_wasting
    THEN {<<[metric |-> "wasting_state", category |-> c]>> : c \in Categories}
    ELSE {<< >>}

\* ResultsStratifier.get_stratification_key of a stratification tuple
stratification_key(stratification) ==
    IF stratification = << >> THEN ""
    ELSE get_stratification_key(stratification[1].category)

\* get_stratification_groups of a stratifier made with by_wasting
get_stratification_groups_by(by_wasting, population) ==
    IF by_wasting THEN get_stratification_groups(population)
    ELSE [i \in DOMAIN population |-> ""]

\* ResultsStratifier.group: the subgroup yielded under each key; the
\* population is cut down to the index of the cache first
group_subgroups(by_wasting, stratification_groups, population) ==
    LET index == DOMAIN population \cap DOMAIN stratification_groups
    IN [key \in {stratification_key(x) : x \in get_all_stratifications(by_wasting)} |->
           {i \in index : stratification_groups[i] = key}]

\* the simulants at the start and the one the host adds later
GroupFirst == {1, 2}

GroupAdded == Cardinality(GroupFirst) + 1

GroupPerson(state) == Person(START_AGE, state, <<100, 100>>, 500)

GroupInit ==
    /\ pop \in [GroupFirst -> {GroupPerson(x) : x \in WASTING_MODEL_STATES}]
    /\ strat \in [by_wasting : BOOLEAN, stratification_groups : {None}, yielded : {None}]
    /\ cov = Idle /\ rate = Idle /\ sim = Idle /\ ini = Idle
    /\ cfg = Idle /\ art = Idle /\ calc = Idle

\* time_step__prepare of the stratifier: the cache over the event index
Group_on_timestep_prepare ==
    /\ strat.yielded = None
    /\ strat' = [strat EXCEPT
                   !.stratification_groups = get_stratification_groups_by(strat.by_wasting, pop)]
    /\ UNCHANGED <<pop, cov, rate, sim, ini, cfg, art, calc>>

\* the host adds a simulant to the population table during the time step
Group_add_simulant ==
    /\ strat.yielded = None
    /\ GroupAdded \notin DOMAIN pop
    /\ \E x \in WASTING_MODEL_STATES : pop' = pop @@ (GroupAdded :> GroupPerson(x))
    /\ UNCHANGED <<strat, cov, rate, sim, ini, cfg, art, calc>>

\* an observer passes the population to group()
Group_call ==
    /\ strat.yielded = None
    /\ strat.stratification_groups # None
    /\ strat' = [strat EXCEPT
                   !.yielded = group_subgroups(strat.by_wasting, strat.stratification_groups, pop)]
    /\ UNCHANGED <<pop, cov, rate, sim, ini, cfg, art, calc>>

GroupNext == Group_on_timestep_prepare \/ Group_add_simulant \/ Group_call

SpecGroup == GroupInit /\ [][GroupNext]_vars

\* C24: every individual of the population passed to group() is in exactly
\* one yielded subgroup, the one whose key is the key of its wasting category
\* (the empty key when stratification by wasting is off), an individual
\* added after the last time_step__prepare included.
C24_GroupPartitions ==
    strat.yielded # None =>
        \A i \in DOMAIN pop :
            /\ Cardinality({key \in DOMAIN strat.yielded : i \in strat.yielded[key]}) = 1
            /\ \A key \in DOMAIN strat.yielded :
                  i \in strat.yielded[key] =>
                      key = (IF strat.by_wasting THEN group_of(pop[i].child_wasting) ELSE "")

\* C25: the previous-state column written at time_step__prepare holds the
\* state at the start of the step, so at collect_metrics the transition
\* a -> b counts exactly the individuals that went from a to b in this step:
\* a change of an earlier step is not counted again and an individual that
\* kept its state is counted under no transition.
C25_TransitionsCountedOnce ==
    /\ [](strat.read.by = "on_collect_metrics" =>
            /\ \A t \in transitions :
                  strat.read.counts[t] =
                      {i \in Simulants : /\ pop[i].previous_child_wasting = t[1]
                                         /\ pop[i].child_wasting = t[2]}
            /\ \A i \in Simulants :
                  Cardinality({t \in transitions : i \in strat.read.counts[t]}) =
                      (IF pop[i].child_wasting # pop[i].previous_child_wasting THEN 1 ELSE 0))
    /\ [][sim.pc = "time_step" =>
            \A i \in Simulants : /\ pop[i].previous_child_wasting = pop[i].child_wasting
                                 /\ pop'[i].previous_child_wasting = pop[i].child_wasting]_vars

\* the counts of the last step for an individual that kept its state in
\* that step, next to one that moved in it
C25_Witness ==
    /\ strat.read.by = "on_collect_metrics"
    /\ sim.step = MaxSteps
    /\ \E i, j \in Simulants :
         /\ pop[i].child_wasting = pop[i].previous_child_wasting
         /\ pop[i].child_wasting = MODERATE_WASTING_STATE_NAME
         /\ \A t \in transitions : i \notin strat.read.counts[t]
         /\ pop[j].child_wasting # pop[j].previous_child_wasting
         /\ j \in strat.read.counts[<<pop[j].previous_child_wasting, pop[j].child_wasting>>]

----------------------------------------------------------------------------
(* Results processing: filter_out_incomplete                              *)

\* the rows of the results table: draw, scenario, seed; the value column
\* stands for the measure columns and tells the rows apart
ResultDraws == {0, 1}

ResultScenarios == {"baseline", "wasting_treatment", "other"}

ResultSeeds == {0, 1}

\* the number of rows of the results table
MaxRows == 3

Keyspaces ==
    {[input_draw |-> <<0, 1>>, random_seed |-> <<0, 1>>, scenario |-> <<"baseline", "wasting_treatment">>],
     [input_draw |-> <<0>>, random_seed |-> <<0, 1>>, scenario |-> <<"baseline", "wasting_treatment">>],
     [input_draw |-> <<1, 0>>, random_seed |-> <<1>>, scenario |-> <<"baseline">>]}

Range(q) == {q[i] : i \in DOMAIN q}

\* the seeds left after intersecting with the seeds each scenario has in
\* the rows of the draw, scenario by scenario
RECURSIVE complete_seeds(_, _, _)
complete_seeds(random_seeds, draw_data, scenarios) ==
    IF scenarios = << >> THEN random_seeds
    ELSE LET scenario == Head(scenarios)
             seeds_in_data == {draw_data[i].random_seed :
                                  i \in {j \in DOMAIN draw_data : draw_data[j].scenario = scenario}}
         IN complete_seeds(random_seeds \cap seeds_in_data, draw_data, Tail(scenarios))

\* the rows of one draw whose seed is in the keyspace
draw_rows_all_seeds(data, keyspace, draw) ==
    LET draw_data == SelectSeq(data, LAMBDA r : r.input_draw = draw)
    IN SelectSeq(draw_data, LAMBDA r : r.random_seed \in Range(keyspace.random_seed))

\* one pass of the loop over the draws: the rows of the draw whose seed is
\* complete over the scenarios of the keyspace
draw_rows(data, keyspace, draw) ==
    LET draw_data == SelectSeq(data, LAMBDA r : r.input_draw = draw)
        random_seeds == complete_seeds(Range(keyspace.random_seed), draw_data, keyspace.scenario)
    IN SelectSeq(draw_data, LAMBDA r : r.random_seed \in random_seeds)

RECURSIVE concat_draws(_, _, _)
concat_draws(data, keyspace, draws) ==
    IF draws = << >> THEN << >>
    ELSE draw_rows(data, keyspace, Head(draws)) \o concat_draws(data, keyspace, Tail(draws))

filter_out_incomplete(data, keyspace) == concat_draws(data, keyspace, keyspace.input_draw)

FilterInit ==
    /\ \E rows \in [1..MaxRows -> [input_draw : ResultDraws, scenario : ResultScenarios, random_seed : ResultSeeds]] :
          calc \in [data : {[i \in 1..MaxRows |->
                               [input_draw |-> rows[i].input_draw, scenario |-> rows[i].scenario,
                                random_seed |-> rows[i].random_seed, value |-> i]]},
                    keyspace : Keyspaces, done : {FALSE}, output : {<< >>}]
    /\ cov = Idle /\ rate = Idle /\ sim = Idle /\ pop = Idle
    /\ strat = Idle /\ ini = Idle /\ cfg = Idle /\ art = Idle

Call_filter_out_incomplete ==
    /\ ~calc.done
    /\ calc' = [calc EXCEPT !.done = TRUE,
                            !.output = filter_out_incomplete(calc.data, calc.keyspace)]
    /\ UNCHANGED <<cov, rate, sim, pop, strat, ini, cfg, art>>

FilterNext == Call_filter_out_incomplete

SpecFilter == FilterInit /\ [][FilterNext]_vars

\* the input holds a row of the draw and seed for the scenario
HasRow(draw, seed, scenario) ==
    \E i \in DOMAIN calc.data :
        /\ calc.data[i].input_draw = draw
        /\ calc.data[i].random_seed = seed
        /\ calc.data[i].scenario = scenario

\* the seeds the output holds for a draw and scenario
OutputSeeds(draw, scenario) ==
    {calc.output[j].random_seed :
        j \in {k \in DOMAIN calc.output : /\ calc.output[k].input_draw = draw
                                          /\ calc.output[k].scenario = scenario}}

\* C26: a row of draw d and seed r is kept iff d and r are in the keyspace
\* and the input has a row of d and r for every scenario of the keyspace;
\* kept rows are unaltered and kept once; in the output the scenarios of the
\* keyspace have the same seeds for every draw.
C26_CompleteSeedsOnly ==
    calc.done =>
        /\ \A i \in DOMAIN calc.data :
              (\E j \in DOMAIN calc.output : calc.output[j] = calc.data[i])
                  <=> /\ calc.data[i].input_draw \in Range(calc.keyspace.input_draw)
                      /\ calc.data[i].random_seed \in Range(calc.keyspace.random_seed)
                      /\ \A x \in Range(calc.keyspace.scenario) :
                            HasRow(calc.data[i].input_draw, calc.data[i].random_seed, x)
        /\ \A j \in DOMAIN calc.output : \E i \in DOMAIN calc.data : calc.output[j] = calc.data[i]
        /\ \A j, k \in DOMAIN calc.output : calc.output[j] = calc.output[k] => j = k
        /\ \A d \in Range(calc.keyspace.input_draw) :
              \A x, y \in Range(calc.keyspace.scenario) : OutputSeeds(d, x) = OutputSeeds(d, y)

\* a draw with a seed that both scenarios completed, kept, and a row of a
\* seed that one scenario lacks, dropped
C26_Witness ==
    /\ calc.done
    /\ Len(calc.keyspace.scenario) = 2
    /\ Len(calc.output) = 2
    /\ calc.output[1].scenario # calc.output[2].scenario
    /\ \E i \in DOMAIN calc.data :
          /\ calc.data[i].input_draw \in Range(calc.keyspace.input_draw)
          /\ calc.data[i].scenario \in Range(calc.keyspace.scenario)
          /\ \A j \in DOMAIN calc.output : calc.output[j] # calc.data[i]

----------------------------------------------------------------------------
(* The stunting exposure modifier of SQLNSTreatment on one individual      *)

\* a modifier that moves only the severe decrease into cat3
apply_stunting_treatment_severe_only(covered, target, severe_stunting_risk_ratio, moderate_stunting_risk_ratio) ==
    LET cat1_decrease == FMul(target["cat1"], FSub(One, severe_stunting_risk_ratio))
        cat2_decrease == FMul(target["cat2"], FSub(One, moderate_stunting_risk_ratio))
    IN IF covered
       THEN [target EXCEPT !["cat1"] = FSub(target["cat1"], cat1_decrease),
                           !["cat2"] = FSub(target["cat2"], cat2_decrease),
                           !["cat3"] = FAdd(target["cat3"], cat1_decrease)]
       ELSE target

\* SQLNSTreatment.apply_stunting_treatment of vivarium_compass_sam
apply_stunting_treatment(covered, target, severe_stunting_risk_ratio, moderate_stunting_risk_ratio) ==
    LET cat1_decrease == FMul(target["cat1"], FSub(One, severe_stunting_risk_ratio))
        cat2_decrease == FMul(target["cat2"], FSub(One, moderate_stunting_risk_ratio))
    IN IF covered
       THEN [target EXCEPT !["cat1"] = FSub(target["cat1"], cat1_decrease),
                           !["cat2"] = FSub(target["cat2"], cat2_decrease),
                           !["cat3"] = FAdd(FAdd(target["cat3"], cat1_decrease), cat2_decrease)]
       ELSE target

\* SQLNSTreatment.apply_stunting_treatment of vivarium_ciff_sam: the
\* decreases are the shares EFFICACY_STUNTING_SEVERE and
\* EFFICACY_STUNTING_MODERATE of cat1 and cat2
apply_stunting_treatment_ciff(covered, target, EFFICACY_STUNTING_SEVERE, EFFICACY_STUNTING_MODERATE) ==
    LET cat1_decrease == FMul(target["cat1"], EFFICACY_STUNTING_SEVERE)
        cat2_decrease == FMul(target["cat2"], EFFICACY_STUNTING_MODERATE)
    IN IF covered
       THEN [target EXCEPT !["cat1"] = FSub(target["cat1"], cat1_decrease),
                           !["cat2"] = FSub(target["cat2"], cat2_decrease),
                           !["cat3"] = FAdd(FAdd(target["cat3"], cat1_decrease), cat2_decrease)]
       ELSE target

StuntTargets ==
    {Table(c1, c2, c3, 1000) : c1 \in {0, 1000, 2000}, c2 \in {0, 3000}, c3 \in {2000, 5000}}

\* risk ratios in [0, 1]; the efficacy of the other package is 1 - ratio
StuntSevereRatios == {Zero, Num(7400), Num(8500), One}

StuntModerateRatios == {Num(9300), One}

StuntAges == {SQ_LNS_COVERAGE_START_AGE - AgeUnitsPerDay, SQ_LNS_COVERAGE_START_AGE}

StuntPropensities == {500, SQ_LNS_COVERAGE_RAMP_UP}

StuntInit ==
    /\ calc \in [scenario : DOMAIN SCENARIOS, clock : {SCALE_UP_START_DT - 1, SCALE_UP_START_DT},
                 age : StuntAges, propensity : StuntPropensities, target : StuntTargets,
                 severe : StuntSevereRatios, moderate : StuntModerateRatios,
                 fn : {"none"}, covered : {FALSE}, value : {Table(0, 0, 0, 0)}]
    /\ cov = Idle /\ rate = Idle /\ sim = Idle /\ pop = Idle
    /\ strat = Idle /\ ini = Idle /\ cfg = Idle /\ art = Idle

SQLNSTreatment_apply_stunting_treatment ==
    /\ calc.fn = "none"
    /\ LET covered == sq_lns_coverage(SCENARIOS[calc.scenario], calc.clock, calc.age, calc.propensity)
       IN calc' = [calc EXCEPT
                     !.fn = "compass",
                     !.covered = covered,
                     !.value = apply_stunting_treatment(covered, calc.target, calc.severe, calc.moderate)]
    /\ UNCHANGED <<cov, rate, sim, pop, strat, ini, cfg, art>>

SQLNSTreatment_apply_stunting_treatment_ciff ==
    /\ calc.fn = "none"
    /\ LET covered == sq_lns_coverage(SCENARIOS[calc.scenario], calc.clock, calc.age, calc.propensity)
       IN calc' = [calc EXCEPT
                     !.fn = "ciff",
                     !.covered = covered,
                     !.value = apply_stunting_treatment_ciff(
                                   covered, calc.target, FSub(One, calc.severe), FSub(One, calc.moderate))]
    /\ UNCHANGED <<cov, rate, sim, pop, strat, ini, cfg, art>>

StuntNext ==
    \/ SQLNSTreatment_apply_stunting_treatment
    \/ SQLNSTreatment_apply_stunting_treatment_ciff

SpecStunt == StuntInit /\ [][StuntNext]_vars

\* the sum of the four categories of an exposure row
StuntMass(t) == t["cat1"].v + t["cat2"].v + t["cat3"].v + t["cat4"].v

\* C27: for a covered individual cat1 and cat2 come back multiplied by
\* their risk ratios and cat3 grows by exactly what they lost, so the sum
\* of the row is the same and no category is negative; for an uncovered
\* individual the row comes back as it went in.
C27_StuntingMassConserved ==
    calc.fn # "none" =>
        /\ \A c \in Categories : IsNum(calc.value[c]) /\ calc.value[c].v >= 0
        /\ StuntMass(calc.value) = StuntMass(calc.target)
        /\ calc.value["cat4"] = calc.target["cat4"]
        /\ calc.covered =>
              /\ calc.value["cat1"] = FMul(calc.target["cat1"], calc.severe)
              /\ calc.value["cat2"] = FMul(calc.target["cat2"], calc.moderate)
              /\ calc.value["cat3"].v - calc.target["cat3"].v
                    = (calc.target["cat1"].v - calc.value["cat1"].v)
                      + (calc.target["cat2"].v - calc.value["cat2"].v)
        /\ ~calc.covered => calc.value = calc.target

\* a covered individual whose severe and moderate exposure both shrink
C27_Witness ==
    /\ calc.fn = "compass"
    /\ calc.covered
    /\ calc.value["cat1"].v < calc.target["cat1"].v
    /\ calc.value["cat2"].v < calc.target["cat2"].v
    /\ calc.value["cat3"].v > calc.target["cat3"].v

----------------------------------------------------------------------------
(* SQ-LNS coverage of one individual over the time steps of a run          *)

\* the number of time steps of the run
LapseMaxSteps == 3

LapseClocks == {SCALE_UP_START_DT - 2, SCALE_UP_START_DT - 1, SCALE_UP_START_DT}

LapseAges ==
    {SQ_LNS_COVERAGE_START_AGE - 2 * StepSize, SQ_LNS_COVERAGE_START_AGE - StepSize,
     SQ_LNS_COVERAGE_START_AGE}

LapsePropensities == {0, 500, SQ_LNS_COVERAGE_RAMP_UP - 1, SQ_LNS_COVERAGE_RAMP_UP, 999}

\* the first evaluation of sq_lns.coverage, on the initial population
LapseInit ==
    /\ \E scenario \in DOMAIN SCENARIOS, clock \in LapseClocks, age \in LapseAges, propensity \in LapsePropensities :
          calc = [scenario |-> scenario, clock |-> clock, age |-> age, propensity |-> propensity,
                  steps |-> 0,
                  coverage |-> sq_lns_coverage(SCENARIOS[scenario], clock, age, propensity)]
    /\ cov = Idle /\ rate = Idle /\ sim = Idle /\ pop = Idle
    /\ strat = Idle /\ ini = Idle /\ cfg = Idle /\ art = Idle

\* a time step: the individual ages by the step, the clock moves on by the
\* step and sq_lns.coverage is evaluated again; the propensity column and
\* the scenario are those of setup
LapseTimeStep ==
    /\ calc.steps < LapseMaxSteps
    /\ LET clock == calc.clock + 1
           age == calc.age + StepSize
       IN calc' = [calc EXCEPT
                     !.clock = clock,
                     !.age = age,
                     !.steps = calc.steps + 1,
                     !.coverage = sq_lns_coverage(SCENARIOS[calc.scenario], clock, age, calc.propensity)]
    /\ UNCHANGED <<cov, rate, sim, pop, strat, ini, cfg, art>>

LapseNext == LapseTimeStep

SpecLapse == LapseInit /\ [][LapseNext]_vars

\* C28: an individual covered by SQ-LNS at one time step is covered at the
\* next one, and so at every later one; an individual whose propensity is at
\* or above COVERAGE_RAMP_UP is never covered; a covered individual is at or
\* above the coverage start age.
C28_CoverageNeverLapses ==
    /\ [](/\ calc.propensity >= SQ_LNS_COVERAGE_RAMP_UP => ~calc.coverage
          /\ calc.coverage => calc.age >= SQ_LNS_COVERAGE_START_AGE)
    /\ [][calc.coverage => calc'.coverage]_vars

\* an individual that became covered during the run, two steps ago at least
C28_Witness ==
    /\ calc.coverage
    /\ calc.steps = LapseMaxSteps
    /\ calc.age - (LapseMaxSteps - 1) * StepSize >= SQ_LNS_COVERAGE_START_AGE
    /\ calc.clock - (LapseMaxSteps - 1) >= SCALE_UP_START_DT
    /\ \/ calc.age - LapseMaxSteps * StepSize < SQ_LNS_COVERAGE_START_AGE
       \/ calc.clock - LapseMaxSteps < SCALE_UP_START_DT

----------------------------------------------------------------------------
(* The declared transitions of the wasting model against the machine       *)

\* models.WASTING_MODEL_TRANSITIONS: the from_state and to_state of each
\* TransitionString of the tuple
WASTING_MODEL_TRANSITIONS ==
    {<<WASTING_SUSCEPTIBLE_STATE_NAME, MILD_WASTING_STATE_NAME>>,
     <<MILD_WASTING_STATE_NAME, MODERATE_WASTING_STATE_NAME>>,
     <<MODERATE_WASTING_STATE_NAME, SEVERE_WASTING_STATE_NAME>>,
     <<SEVERE_WASTING_STATE_NAME, MODERATE_WASTING_STATE_NAME>>,
     <<MODERATE_WASTING_STATE_NAME, MILD_WASTING_STATE_NAME>>,
     <<MILD_WASTING_STATE_NAME, WASTING_SUSCEPTIBLE_STATE_NAME>>}

\* C29: every edge ChildWasting wires between two distinct states, the
\* treated remission severe -> mild included, is in WASTING_MODEL_TRANSITIONS,
\* every listed transition is wired, and so every state change of a step of
\* a run is a listed transition.
C29_DeclaredMatchesWired ==
    /\ [](/\ \A e \in ChildWasting : e.from # e.to => <<e.from, e.to>> \in WASTING_MODEL_TRANSITIONS
          /\ \A t \in WASTING_MODEL_TRANSITIONS : \E e \in ChildWasting : <<e.from, e.to>> = t)
    /\ [][\A i \in Simulants :
             pop'[i].child_wasting # pop[i].child_wasting =>
                 <<pop[i].child_wasting, pop'[i].child_wasting>> \in WASTING_MODEL_TRANSITIONS]_vars

\* the half that holds: every listed transition is wired
C29_ListedAreWired ==
    \A t \in WASTING_MODEL_TRANSITIONS : \E e \in ChildWasting : <<e.from, e.to>> = t

\* the state changes of a step other than severe -> mild are listed
C29_OnlySevereToMildUnlisted ==
    [][\A i \in Simulants :
          pop'[i].child_wasting # pop[i].child_wasting =>
              \/ <<pop[i].child_wasting, pop'[i].child_wasting>> \in WASTING_MODEL_TRANSITIONS
              \/ <<pop[i].child_wasting, pop'[i].child_wasting>>
                     = <<SEVERE_WASTING_STATE_NAME, MILD_WASTING_STATE_NAME>>]_vars

----------------------------------------------------------------------------
(* The policy flags the coverage modifiers read from the scenario          *)

\* scenarios.SCENARIOS of vivarium_compass_sam: Scenario.__init__ sets
\* has_alternative_treatment only
SCENARIOS_compass ==
    [baseline |-> [has_alternative_treatment |-> FALSE],
     wasting_treatment |-> [has_alternative_treatment |-> TRUE]]

COMPASS == "vivarium_compass_sam"

CIFF == "vivarium_ciff_sam"

\* the registered scenarios of a package
registered(package) == IF package = COMPASS THEN SCENARIOS_compass ELSE SCENARIOS

Returned(value) == [error |-> "none", value |-> value]

Failed(error, attribute) == [error |-> error, value |-> attribute]

\* SQLNSIntervention.coverage_effect as a call: the read of
\* self.scenario.has_sqlns raises when the object has no such attribute
SQLNSIntervention_coverage_effect_call(scenario, clock, age, propensity, target) ==
    IF "has_sqlns" \notin DOMAIN scenario
    THEN Failed("AttributeError", "has_sqlns")
    ELSE Returned(coverage_effect(scenario, clock, age, propensity, target))

\* WastingTreatmentIntervention.coverage_effect as a call
WastingTreatmentIntervention_coverage_effect_call(scenario, clock, target) ==
    IF "has_alternative_treatment" \notin DOMAIN scenario
    THEN Failed("AttributeError", "has_alternative_treatment")
    ELSE Returned(wasting_treatment_coverage_effect(scenario, clock, target))

\* a run that passed setup: the scenario name is a key of SCENARIOS
FlagsInit ==
    /\ \E package \in {COMPASS, CIFF} :
         \E name \in DOMAIN registered(package) :
            calc \in [package : {package}, scenario : {name}, clock : SqlnsClocks, age : SqlnsAges,
                      propensity : SqlnsPropensities, modifier : {"none"},
                      result : {Returned("")}]
    /\ cov = Idle /\ rate = Idle /\ sim = Idle /\ pop = Idle
    /\ strat = Idle /\ ini = Idle /\ cfg = Idle /\ art = Idle

Flags_SQLNSIntervention_coverage_effect ==
    /\ calc.modifier = "none"
    /\ \E target \in BOOLEAN :
         calc' = [calc EXCEPT
                    !.modifier = "SQLNSIntervention.coverage_effect",
                    !.result = SQLNSIntervention_coverage_effect_call(
                                   registered(calc.package)[calc.scenario], calc.clock, calc.age,
                                   calc.propensity, target)]
    /\ UNCHANGED <<cov, rate, sim, pop, strat, ini, cfg, art>>

\* intervention.py of vivarium_compass_sam has no WastingTreatmentIntervention
Flags_WastingTreatmentIntervention_coverage_effect ==
    /\ calc.modifier = "none"
    /\ calc.package = CIFF
    /\ \E target \in TxExposureSet :
         calc' = [calc EXCEPT
                    !.modifier = "WastingTreatmentIntervention.coverage_effect",
                    !.result = WastingTreatmentIntervention_coverage_effect_call(
                                   registered(calc.package)[calc.scenario], calc.clock, target)]
    /\ UNCHANGED <<cov, rate, sim, pop, strat, ini, cfg, art>>

FlagsNext ==
    \/ Flags_SQLNSIntervention_coverage_effect
    \/ Flags_WastingTreatmentIntervention_coverage_effect

SpecFlags == FlagsInit /\ [][FlagsNext]_vars

\* C30: for every registered scenario every call of a coverage modifier
\* returns; no call fails on a policy flag the scenario object lacks.
C30_NoMissingFlag ==
    calc.modifier # "none" => calc.result.error = "none"

\* the half that holds: with the scenarios of vivarium_ciff_sam every call returns
C30_CiffScenariosComplete ==
    (calc.modifier # "none" /\ calc.package = CIFF) => calc.result.error = "none"

====
